---- MODULE Spec2Model ----
(***************************************************************************)
(* The world-state simulator of cheap-ice (class IngressStateSimulator):   *)
(* portals, resonator counts, links and fields, replayed from normalized   *)
(* feed actions by processAction.                                          *)
(*                                                                         *)
(* Portal identifiers are JavaScript strings.  They are modelled as        *)
(* sequences of one-character strings, so that the link key built by       *)
(* getLinkKey (sort, join('-')), its parsing by split('-') and the         *)
(* substring tests of String.includes are computed as the code computes    *)
(* them.  The empty sequence stands for a missing identifier (null), which *)
(* the code only ever tests for truthiness.                                *)
(***************************************************************************)
EXTENDS Integers, Sequences, FiniteSets, TLC

VARIABLES portalStates, portalResonators, links, fields, pending, last, ret, steps,
          catalog, log,
          rawList, parsed, portalsTable, actionsTable, seen, fetches,
          history, untilTimestampMs, currentMaxTimestamp, fetchPc, responseData,
          requests, honest,
          icePc, stopRequested, blocking, counter, numberOfScreenshots, listening,
          stopSeen, browserOpen, isLoggedIn, inFlight,
          actions, screenshotPerAction, simulationStart, recordingStart, stepSeconds,
          time, actionIdx, frames

\* The simulator object, the rows it was built from and the replay's position.
simVars == <<portalStates, portalResonators, links, fields, pending, last, ret, steps,
             catalog>>

\* The history store and the page of the feed being ingested.
\* The loop of fetchHistoryUntil: the feed's events newest first, the floor,
\* the cursor, the position of the loop, the last response, the number of
\* requests sent, and whether every response so far held the newest events
\* at or below the cursor up to the page size.
loopVars == <<history, untilTimestampMs, currentMaxTimestamp, fetchPc, responseData,
              requests, honest>>

ingestVars == <<rawList, parsed, portalsTable, actionsTable, seen, fetches, loopVars>>

\* The screenshot bot (IngressIceReplica): the position of run(), its fields,
\* the stdin listener, whether stop() was called during the run, and the
\* number of interval callbacks that are inside a screenshot cycle.
iceVars == <<icePc, stopRequested, blocking, counter, numberOfScreenshots, listening,
             stopSeen, browserOpen, isLoggedIn, inFlight>>

\* The replay driver (simulateHistory): the rows of the actions table in
\* timestamp order, the mode and the timing values, the position of either
\* loop, and the frames handed to captureFrame so far.
driverVars == <<actions, screenshotPerAction, simulationStart, recordingStart,
                stepSeconds, time, actionIdx, frames>>

vars == <<simVars, log, ingestVars, iceVars, driverVars>>

\* The variables outside the replay, outside the ingest, outside the bot,
\* outside the simulator and its driver.
NotSim == <<ingestVars, iceVars, driverVars>>
NotIngest == <<simVars, log, iceVars, driverVars>>
NotIce == <<simVars, log, ingestVars, driverVars>>
NotDriver == <<ingestVars, iceVars>>

\* Number of free processAction calls of one replay.
MaxSteps == 2

\* Number of free processAction calls of a replay whose log is kept.
MaxLog == 1

\* Number of key phrases in the text of a raw feed record.
MaxPhrases == 2

\* Number of pages fetched by one ingest run.
MaxFetches == 2

\* Number of events in the feed's history, largest event timestamp (and the
\* time fetchHistoryUntil starts at), and events per page of the feed.
MaxEvents == 4
MaxTimestamp == 4
PageLimit == 2

\* Largest numberOfScreenshots configured; 0 is run-until-stopped.
MaxScreenshots == 3

\* Resonator slots of a portal.
MaxResonators == 8

----------------------------------------------------------------------------
\* JavaScript strings

Null == <<>>

\* UTF-16 code unit of the characters used in identifiers.
CharCode(ch) ==
    CASE ch = "-" -> 45
      [] ch = "a" -> 97
      [] ch = "b" -> 98
      [] ch = "c" -> 99
      [] ch = "d" -> 100
      [] ch = "e" -> 101
      [] ch = "f" -> 102
      [] ch = "g" -> 103
      [] ch = "x" -> 120

Min(m, n) == IF m <= n THEN m ELSE n

\* s < t in the order Array.prototype.sort uses for strings (code units,
\* a proper prefix first).
StrLess(s, t) ==
    LET n == Min(Len(s), Len(t))
        diff == {i \in 1..n : s[i] # t[i]}
    IN  IF diff = {}
        THEN Len(s) < Len(t)
        ELSE LET k == CHOOSE i \in diff : \A j \in diff : i <= j
             IN  CharCode(s[k]) < CharCode(t[k])

\* String.prototype.includes
StrIncludes(s, sub) ==
    \E i \in 0..(Len(s) - Len(sub)) : SubSeq(s, i + 1, i + Len(sub)) = sub

\* String.prototype.split('-'): the sequence of parts.
RECURSIVE StrSplit(_)
StrSplit(s) ==
    LET hy == {i \in 1..Len(s) : s[i] = "-"}
    IN  IF hy = {}
        THEN <<s>>
        ELSE LET k == CHOOSE i \in hy : \A j \in hy : i <= j
             IN  <<SubSeq(s, 1, k - 1)>> \o StrSplit(SubSeq(s, k + 1, Len(s)))

\* const [a, b] = key.split('-'): a missing second part is undefined, which
\* equals no identifier and is in no map.
Undefined == <<"undefined">>
SplitFirst(key) == StrSplit(key)[1]
SplitSecond(key) ==
    LET parts == StrSplit(key) IN IF Len(parts) >= 2 THEN parts[2] ELSE Undefined

SeqRange(seq) == {seq[i] : i \in DOMAIN seq}

----------------------------------------------------------------------------
\* The simulator state {portalStates, portalResonators, links, fields} is
\* passed through the methods as a record st; links is the insertion-ordered
\* Set of keys, fields the array of {p1, p2, p3, team}.

\* portalStates.has(id)
HasPortal(st, id) == id \in DOMAIN st.portalStates

\* links.has(key)
HasLink(st, key) == key \in SeqRange(st.links)

\* As getLinkKey, joining the identifiers in the order given (no sort).
getLinkKey_unsorted(id1, id2) == id1 \o <<"-">> \o id2

\* [id1, id2].sort().join('-')
getLinkKey(id1, id2) ==
    IF StrLess(id2, id1)
    THEN id2 \o <<"-">> \o id1
    ELSE id1 \o <<"-">> \o id2

\* (b.lng - a.lng) * (c.lat - a.lat) - (b.lat - a.lat) * (c.lng - a.lng)
calculateCrossProduct(a, b, c) ==
    (b.lng - a.lng) * (c.lat - a.lat) - (b.lat - a.lat) * (c.lng - a.lng)

doLinksIntersect(a, b, c, d) ==
    IF a.id = c.id \/ a.id = d.id \/ b.id = c.id \/ b.id = d.id
    THEN FALSE
    ELSE LET ccw1 == calculateCrossProduct(a, b, c)
             ccw2 == calculateCrossProduct(a, b, d)
             ccw3 == calculateCrossProduct(c, d, a)
             ccw4 == calculateCrossProduct(c, d, b)
         IN  (ccw1 * ccw2 < 0) /\ (ccw3 * ccw4 < 0)

\* The filter of deleteLink: does field f use the edge l1-l2?
FieldUsesEdge(f, l1, l2) ==
    \/ (f.p1 = l1 /\ f.p2 = l2) \/ (f.p1 = l2 /\ f.p2 = l1)
    \/ (f.p2 = l1 /\ f.p3 = l2) \/ (f.p2 = l2 /\ f.p3 = l1)
    \/ (f.p3 = l1 /\ f.p1 = l2) \/ (f.p3 = l2 /\ f.p1 = l1)

\* As deleteLink, leaving the field array as it is.
deleteLink_fieldsKept(st, linkKey) ==
    IF ~HasLink(st, linkKey)
    THEN st
    ELSE LET OtherKey(k) == k # linkKey
         IN  [st EXCEPT !.links = SelectSeq(@, OtherKey)]

\* deleteLink: the state it leaves.
deleteLink(st, linkKey) ==
    IF ~HasLink(st, linkKey)
    THEN st
    ELSE LET l1 == SplitFirst(linkKey)
             l2 == SplitSecond(linkKey)
             OtherKey(k) == k # linkKey
             KeepField(f) == ~FieldUsesEdge(f, l1, l2)
         IN  [st EXCEPT !.links = SelectSeq(@, OtherKey),
                        !.fields = SelectSeq(@, KeepField)]

\* deleteLink: the value it returns.
deleteLinkReturn(st, linkKey) == HasLink(st, linkKey)

\* linksToRemove.forEach(key => { if (this.deleteLink(key)) changed = true })
RECURSIVE DeleteEach(_, _)
DeleteEach(r, keys) ==
    IF keys = <<>>
    THEN r
    ELSE DeleteEach([st |-> deleteLink(r.st, Head(keys)),
                     changed |-> r.changed \/ deleteLinkReturn(r.st, Head(keys))],
                    Tail(keys))

\* 3. Safety Net of removeLinksAttachedTo, on the outcome r of the deletions:
\* scrub any residual field touching the portal.
ScrubResidualFields(r, portalId) ==
    LET Untouched(f) == f.p1 # portalId /\ f.p2 # portalId /\ f.p3 # portalId
    IN  [st |-> [r.st EXCEPT !.fields = SelectSeq(@, Untouched)],
         changed |-> r.changed \/ \E i \in DOMAIN r.st.fields : ~Untouched(r.st.fields[i])]

\* removeLinksAttachedTo: [st, changed].
removeLinksAttachedTo(st, portalId) ==
    LET Attached(k) == StrIncludes(k, portalId)
    IN  ScrubResidualFields(
            DeleteEach([st |-> st, changed |-> FALSE], SelectSeq(st.links, Attached)),
            portalId)

\* The loop of cleanupCrossedLinks over the copy currentLinks.
RECURSIVE CleanupEach(_, _, _, _)
CleanupEach(r, p1, p2, currentLinks) ==
    IF currentLinks = <<>>
    THEN r
    ELSE LET existingLinkKey == Head(currentLinks)
             id3 == SplitFirst(existingLinkKey)
             id4 == SplitSecond(existingLinkKey)
             hit == /\ HasPortal(r.st, id3)
                    /\ HasPortal(r.st, id4)
                    /\ doLinksIntersect(p1, p2, r.st.portalStates[id3],
                                        r.st.portalStates[id4])
             next == IF hit
                     THEN [st |-> deleteLink(r.st, existingLinkKey),
                           changed |-> r.changed
                                       \/ deleteLinkReturn(r.st, existingLinkKey)]
                     ELSE r
         IN  CleanupEach(next, p1, p2, Tail(currentLinks))

\* cleanupCrossedLinks: [st, changed].
cleanupCrossedLinks(st, id1, id2) ==
    IF ~HasPortal(st, id1) \/ ~HasPortal(st, id2)
    THEN [st |-> st, changed |-> FALSE]
    ELSE CleanupEach([st |-> st, changed |-> FALSE], st.portalStates[id1],
                     st.portalStates[id2], st.links)

\* getNeighbors: the array of neighbour identifiers, in link order.
RECURSIVE NeighborsOf(_, _)
NeighborsOf(keys, id) ==
    IF keys = <<>>
    THEN <<>>
    ELSE (IF StrIncludes(Head(keys), id)
          THEN <<IF SplitFirst(Head(keys)) = id
                 THEN SplitSecond(Head(keys))
                 ELSE SplitFirst(Head(keys))>>
          ELSE <<>>)
         \o NeighborsOf(Tail(keys), id)

getNeighbors(st, id) == NeighborsOf(st.links, id)

\* candidates.sort((a, b) => b.area - a.area)[0]: the sort is stable, so the
\* winner is the first candidate of largest area.
Winner(candidates) ==
    LET best == CHOOSE i \in DOMAIN candidates :
                    /\ \A j \in DOMAIN candidates :
                           candidates[j].area <= candidates[i].area
                    /\ \A j \in 1..(i - 1) :
                           candidates[j].area < candidates[i].area
        w == candidates[best]
    IN  [p1 |-> w.p1, p2 |-> w.p2, p3 |-> w.p3, team |-> w.team]

Abs(n) == IF n < 0 THEN -n ELSE n

\* neighbors1.filter(n => neighbors2.includes(n)), less the neighbours that
\* portalStates does not hold (the forEach returns early on them).
CommonNeighbors(st, neighbors1, neighbors2) ==
    LET Common(n) == n \in SeqRange(neighbors2) /\ HasPortal(st, n)
    IN  SelectSeq(neighbors1, Common)

\* The candidates of detectAndCreateFields and the winners pushed, per side.
PushWinners(st, id1, id2, team, commonNeighbors) ==
    LET p1 == st.portalStates[id1]
        p2 == st.portalStates[id2]
        val(n) == calculateCrossProduct(p1, p2, st.portalStates[n])
        Cand(n) == [p1 |-> id1, p2 |-> id2, p3 |-> n, team |-> team,
                    area |-> Abs(val(n))]
        IsLeft(c) == val(c.p3) > 0
        IsRight(c) == val(c.p3) < 0
        candidates == [i \in DOMAIN commonNeighbors |-> Cand(commonNeighbors[i])]
        leftCandidates == SelectSeq(candidates, IsLeft)
        rightCandidates == SelectSeq(candidates, IsRight)
    IN  (IF leftCandidates # <<>> THEN <<Winner(leftCandidates)>> ELSE <<>>)
        \o (IF rightCandidates # <<>> THEN <<Winner(rightCandidates)>> ELSE <<>>)

\* this.fields.push(winner), fieldsAdded = true
PushFields(st, added) ==
    [st |-> [st EXCEPT !.fields = @ \o added], changed |-> added # <<>>]

\* detectAndCreateFields: [st, changed].
detectAndCreateFields(st, id1, id2, team) ==
    IF ~HasPortal(st, id1) \/ ~HasPortal(st, id2)
    THEN [st |-> st, changed |-> FALSE]
    ELSE PushFields(st, PushWinners(st, id1, id2, team,
                        CommonNeighbors(st, getNeighbors(st, id1), getNeighbors(st, id2))))

\* setPortalTeam: the state it leaves.
setPortalTeam(st, id, team) ==
    IF HasPortal(st, id) /\ st.portalStates[id].team # team
    THEN [st EXCEPT !.portalStates[id].team = team]
    ELSE st

\* setPortalTeam: the value it returns.
setPortalTeamReturn(st, id, team) ==
    HasPortal(st, id) /\ st.portalStates[id].team # team

\* const [a, b] = k.split('-'); return { p1: a, p2: b }, on the parts of k.
SnapshotLink(parts) ==
    [p1 |-> parts[1], p2 |-> IF Len(parts) >= 2 THEN parts[2] ELSE Undefined]

\* Array.from(this.links).map(...): the links of a snapshot.
SnapshotLinks(linkKeys) ==
    [i \in DOMAIN linkKeys |-> SnapshotLink(StrSplit(linkKeys[i]))]

\* getCurrentState: the portal records in catalog order (here by id), the
\* links as {p1, p2} split from the keys, and the field array.
getCurrentState(st) ==
    [portals |-> st.portalStates,
     links |-> SnapshotLinks(st.links),
     fields |-> st.fields]

----------------------------------------------------------------------------
\* Normalized actions.  The verbs and types are the strings the normalizer
\* writes to the actions table; a verb carries its faction suffix when the
\* record had a PLAYER tag with a known team, and none otherwise.

\* action.action.includes('_RES'); the rows read back from the actions table
\* have no team column, so action.team is undefined.
IncludesRES(verb) ==
    verb \in {"captured_RES", "deploy_RES", "link_RES", "field_RES", "won_RES"}

\* action.action.includes('_ENL')
IncludesENL(verb) ==
    verb \in {"captured_ENL", "deploy_ENL", "link_ENL", "field_ENL", "won_ENL"}

\* As IsDeployVerb, taking the field verbs for deployments as well.
IsDeployVerb_withField(verb) ==
    verb \in {"deploy", "deploy_RES", "deploy_ENL",
              "captured", "captured_RES", "captured_ENL",
              "field", "field_RES", "field_ENL"}

\* action.action.includes('deploy') || action.action.includes('captured')
IsDeployVerb(verb) ==
    verb \in {"deploy", "deploy_RES", "deploy_ENL",
              "captured", "captured_RES", "captured_ENL"}

\* action.action.startsWith('won_')
StartsWithWon(verb) == verb \in {"won_RES", "won_ENL"}

\* As ActionTeam, with team kept from the previous call when the verb names
\* no faction (no `let team = null` at the start of the call).
ActionTeam_kept(action) ==
    IF IncludesRES(action.action) THEN "RES"
    ELSE IF IncludesENL(action.action) THEN "ENL"
    ELSE IF IncludesRES(last.action) THEN "RES"
    ELSE IF IncludesENL(last.action) THEN "ENL"
    ELSE "null"

\* 1. IDENTIFY TEAM: 'RES', 'ENL' or null.
ActionTeam(action) ==
    IF IncludesRES(action.action) THEN "RES"
    ELSE IF IncludesENL(action.action) THEN "ENL"
    ELSE "null"

\* if (this.deleteLink(key)) hasVisibleChange = true
DeleteKey(st, key) ==
    [st |-> deleteLink(st, key), changed |-> deleteLinkReturn(st, key)]

\* 2. HANDLE EXPLICIT LINK DESTROY
HandleLinkDestroy(st, p1Id, p2Id) ==
    IF p1Id # Null /\ p2Id # Null
    THEN DeleteKey(st, getLinkKey(p1Id, p2Id))
    ELSE [st |-> st, changed |-> FALSE]

\* let currentCount = this.portalResonators.get(p1Id) || 8;
\* if (currentCount > 0) currentCount--;
DecrementedCount(count) ==
    LET currentCount == IF count = 0 THEN MaxResonators ELSE count
    IN  IF currentCount > 0 THEN currentCount - 1 ELSE currentCount

\* hasVisibleChange stays true once set.
ThenChanged(changed, r) == [st |-> r.st, changed |-> changed \/ r.changed]

\* As ThenSetPortalTeam, dropping the value setPortalTeam returns.
ThenSetPortalTeam_unflagged(r, id, team) ==
    [st |-> setPortalTeam(r.st, id, team), changed |-> r.changed]

\* if (this.setPortalTeam(id, team)) hasVisibleChange = true, on an outcome r.
ThenSetPortalTeam(r, id, team) ==
    [st |-> setPortalTeam(r.st, id, team),
     changed |-> r.changed \/ setPortalTeamReturn(r.st, id, team)]

\* As NeutralizeAtZero, resetting the count but leaving the team.
NeutralizeAtZero_teamKept(r, p1Id, currentCount) ==
    IF currentCount <= 0
    THEN [st |-> [r.st EXCEPT !.portalResonators[p1Id] = 0], changed |-> r.changed]
    ELSE r

\* RULE: If resos drop to 0, Portal Neutralizes.
NeutralizeAtZero(r, p1Id, currentCount) ==
    IF currentCount <= 0
    THEN ThenSetPortalTeam([st |-> [r.st EXCEPT !.portalResonators[p1Id] = 0],
                            changed |-> r.changed], p1Id, "NEUTRAL")
    ELSE r

\* As LinksFailAtTwo, with the threshold one too low (currentCount < 2).
LinksFailAtTwo_belowTwo(st, p1Id, currentCount) ==
    IF currentCount < 2
    THEN removeLinksAttachedTo(st, p1Id)
    ELSE [st |-> st, changed |-> FALSE]

\* RULE: If resos drop to 2 or less, links fail.
LinksFailAtTwo(st, p1Id, currentCount) ==
    IF currentCount <= 2
    THEN removeLinksAttachedTo(st, p1Id)
    ELSE [st |-> st, changed |-> FALSE]

\* As HandleResoDestroy, without the rule that links fail at 2 or less.
HandleResoDestroy_linksKept(st, p1Id) ==
    IF ~HasPortal(st, p1Id)
    THEN [st |-> st, changed |-> FALSE]
    ELSE LET currentCount == DecrementedCount(st.portalResonators[p1Id])
         IN  NeutralizeAtZero(
                 [st |-> [st EXCEPT !.portalResonators[p1Id] = currentCount],
                  changed |-> FALSE],
                 p1Id, currentCount)

\* 3. HANDLE RESO DESTROY / DECAY
HandleResoDestroy(st, p1Id) ==
    IF ~HasPortal(st, p1Id)
    THEN [st |-> st, changed |-> FALSE]
    ELSE LET currentCount == DecrementedCount(st.portalResonators[p1Id])
         IN  NeutralizeAtZero(
                 LinksFailAtTwo([st EXCEPT !.portalResonators[p1Id] = currentCount],
                                p1Id, currentCount),
                 p1Id, currentCount)

\* As HandlePortalOwnership, a flip leaving the portal's links in place.
HandlePortalOwnership_flipKeepsLinks(st, verb, p1Id, team) ==
    IF ~(HasPortal(st, p1Id) /\ IsDeployVerb(verb))
    THEN [st |-> st, changed |-> FALSE]
    ELSE LET current == st.portalStates[p1Id].team
         IN  IF current = "NEUTRAL" \/ current # team
             THEN LET s1 == setPortalTeam(st, p1Id, team)
                  IN  [st |-> [s1 EXCEPT !.portalResonators[p1Id] = 1],
                       changed |-> TRUE]
             ELSE LET count == st.portalResonators[p1Id]
                  IN  [st |-> IF count < MaxResonators
                              THEN [st EXCEPT !.portalResonators[p1Id] = count + 1]
                              ELSE st,
                       changed |-> FALSE]

\* As HandlePortalOwnership, reinforcing without the `count < 8` test.
HandlePortalOwnership_uncapped(st, verb, p1Id, team) ==
    IF ~(HasPortal(st, p1Id) /\ IsDeployVerb(verb))
    THEN [st |-> st, changed |-> FALSE]
    ELSE LET current == st.portalStates[p1Id].team
         IN  IF current # "NEUTRAL" /\ current # team
             THEN LET s1 == setPortalTeam(st, p1Id, team)
                      s2 == removeLinksAttachedTo(s1, p1Id).st
                  IN  [st |-> [s2 EXCEPT !.portalResonators[p1Id] = 1],
                       changed |-> TRUE]
             ELSE IF current = "NEUTRAL"
             THEN LET s1 == setPortalTeam(st, p1Id, team)
                  IN  [st |-> [s1 EXCEPT !.portalResonators[p1Id] = 1],
                       changed |-> TRUE]
             ELSE [st |-> [st EXCEPT !.portalResonators[p1Id] = @ + 1],
                   changed |-> FALSE]

\* 4. HANDLE PORTAL OWNERSHIP (Capture/Deploy), entered when team && p1Id.
HandlePortalOwnership(st, verb, p1Id, team) ==
    IF ~(HasPortal(st, p1Id) /\ IsDeployVerb(verb))
    THEN [st |-> st, changed |-> FALSE]
    ELSE LET current == st.portalStates[p1Id].team
         IN  IF current # "NEUTRAL" /\ current # team
             THEN \* FLIP
                  LET s1 == setPortalTeam(st, p1Id, team)
                      s2 == removeLinksAttachedTo(s1, p1Id).st
                  IN  [st |-> [s2 EXCEPT !.portalResonators[p1Id] = 1],
                       changed |-> TRUE]
             ELSE IF current = "NEUTRAL"
             THEN \* CAPTURE
                  LET s1 == setPortalTeam(st, p1Id, team)
                  IN  [st |-> [s1 EXCEPT !.portalResonators[p1Id] = 1],
                       changed |-> TRUE]
             ELSE \* REINFORCE
                  LET count == st.portalResonators[p1Id]
                  IN  [st |-> IF count < MaxResonators
                              THEN [st EXCEPT !.portalResonators[p1Id] = count + 1]
                              ELSE st,
                       changed |-> FALSE]

\* 2. ADD LINK and 3. CREATE FIELDS, on the outcome r of the cleanup.
AddLinkAndFields(r, p1Id, p2Id, team, linkKey) ==
    [st |-> detectAndCreateFields([r.st EXCEPT !.links = Append(@, linkKey)],
                                  p1Id, p2Id, team).st,
     changed |-> TRUE]

\* As LinkUnlessPresent, without the test for a stored key.
LinkUnlessPresent_always(r, p1Id, p2Id, team, linkKey) ==
    AddLinkAndFields(cleanupCrossedLinks(r.st, p1Id, p2Id), p1Id, p2Id, team, linkKey)

\* if (!this.links.has(linkKey)) { ... }, on the outcome r of forcing the teams.
LinkUnlessPresent(r, p1Id, p2Id, team, linkKey) ==
    IF HasLink(r.st, linkKey)
    THEN r
    ELSE AddLinkAndFields(cleanupCrossedLinks(r.st, p1Id, p2Id), p1Id, p2Id, team, linkKey)

\* 5. HANDLE LINKS & FIELDS, entered when action.type === 'link'.
HandleLinks(st, p1Id, p2Id, team) ==
    IF ~(p1Id # Null /\ p2Id # Null /\ team # "null")
    THEN [st |-> st, changed |-> FALSE]
    ELSE LinkUnlessPresent(
             ThenSetPortalTeam(ThenSetPortalTeam([st |-> st, changed |-> FALSE],
                                                 p1Id, team), p2Id, team),
             p1Id, p2Id, team, getLinkKey(p1Id, p2Id))

\* The beacon branch without the removeLinksAttachedTo call of line 298.
HandleBattleBeacon_linksKept(st, p1Id, team) ==
    LET lost == /\ HasPortal(st, p1Id)
                /\ st.portalStates[p1Id].team # "NEUTRAL"
                /\ st.portalStates[p1Id].team # team
    IN  ThenSetPortalTeam([st |-> st, changed |-> lost], p1Id, team)

\* 6. BATTLE BEACON, entered when action.action.startsWith('won_').
HandleBattleBeacon(st, p1Id, team) ==
    LET lost == /\ HasPortal(st, p1Id)
                /\ st.portalStates[p1Id].team # "NEUTRAL"
                /\ st.portalStates[p1Id].team # team
    IN  ThenSetPortalTeam([st |-> IF lost THEN removeLinksAttachedTo(st, p1Id).st ELSE st,
                           changed |-> lost], p1Id, team)

\* Sections 5 and 6, on the outcome r of section 4.
LinksOrBeacon(r, action, team) ==
    IF action.type = "link"
    THEN ThenChanged(r.changed,
                     HandleLinks(r.st, action.portal_id, action.target_portal_id, team))
    ELSE IF StartsWithWon(action.action)
    THEN ThenChanged(r.changed, HandleBattleBeacon(r.st, action.portal_id, team))
    ELSE r

\* processAction: [st, changed], changed being the returned hasVisibleChange.
processAction(st, action) ==
    LET p1Id == action.portal_id
        p2Id == action.target_portal_id
        team == ActionTeam(action)
    IN  IF action.type = "link" /\ action.action = "destroy"
        THEN HandleLinkDestroy(st, p1Id, p2Id)
        ELSE IF action.action = "destroy" /\ action.type = "reso"
        THEN HandleResoDestroy(st, p1Id)
        ELSE LinksOrBeacon(IF team # "null" /\ p1Id # Null
                           THEN HandlePortalOwnership(st, action.action, p1Id, team)
                           ELSE [st |-> st, changed |-> FALSE],
                           action, team)

----------------------------------------------------------------------------
\* Replay inputs

\* The portals table read by simulateHistory.  #saveToDB fills its id column
\* (and the actions' portal_id, target_portal_id) from the PORTAL tag's name,
\* and names may contain one another or a hyphen.  lat/lng are the E6
\* coordinates on a small integer grid; a row is stored only with a truthy lat.
PlainCatalog ==
    << [id |-> <<"a">>, lat |-> 1, lng |-> 0],
       [id |-> <<"b">>, lat |-> 1, lng |-> 4],
       [id |-> <<"c">>, lat |-> 4, lng |-> 4],
       [id |-> <<"d">>, lat |-> 5, lng |-> 0] >>

NamesCatalog ==
    << [id |-> <<"a">>, lat |-> 1, lng |-> 0],
       [id |-> <<"a", "b">>, lat |-> 1, lng |-> 4],
       [id |-> <<"c">>, lat |-> 4, lng |-> 4],
       [id |-> <<"c", "-", "d">>, lat |-> 5, lng |-> 0] >>

Catalogs == {PlainCatalog, NamesCatalog}

\* Portals around the edge a-b: c and g on its left, g inside the triangle
\* a b c; f on its right; e on the line through a and b.
FieldCatalog ==
    << [id |-> <<"a">>, lat |-> 2, lng |-> 0],
       [id |-> <<"b">>, lat |-> 2, lng |-> 4],
       [id |-> <<"c">>, lat |-> 5, lng |-> 3],
       [id |-> <<"e">>, lat |-> 2, lng |-> 8],
       [id |-> <<"f">>, lat |-> 1, lng |-> 2],
       [id |-> <<"g">>, lat |-> 3, lng |-> 2] >>

\* A portal that was renamed between two fetches has a row under each name,
\* both with its coordinates: c and d.
TwinCatalog ==
    << [id |-> <<"a">>, lat |-> 2, lng |-> 0],
       [id |-> <<"b">>, lat |-> 2, lng |-> 4],
       [id |-> <<"c">>, lat |-> 5, lng |-> 3],
       [id |-> <<"d">>, lat |-> 5, lng |-> 3] >>

\* An identifier an action carries for a portal that has no row in portals.
UnknownId == <<"x">>

\* constructor(portalsList)
Construct(portalsList) ==
    LET ids == {portalsList[i].id : i \in DOMAIN portalsList}
        Row(id) == CHOOSE p \in SeqRange(portalsList) : p.id = id
    IN  [portalStates |-> [id \in ids |->
                              [id |-> id, lat |-> Row(id).lat, lng |-> Row(id).lng,
                               team |-> "NEUTRAL"]],
         portalResonators |-> [id \in ids |-> 0],
         links |-> <<>>,
         fields |-> <<>>]

\* A row of the actions table.
Action(type, verb, p, q) ==
    [type |-> type, action |-> verb, portal_id |-> p, target_portal_id |-> q]

\* (type, action) pairs the normalizer's classification writes.
LinkKinds ==
    { [type |-> "link", action |-> v] : v \in {"destroy", "link_RES", "link_ENL"} }

PortalKinds ==
    { [type |-> "reso", action |-> v] : v \in {"destroy", "deploy_RES", "deploy_ENL"} }
    \cup { [type |-> "portal", action |-> v] : v \in {"captured_RES", "captured_ENL"} }
    \cup { [type |-> "battlebeacon", action |-> v] : v \in {"won_RES", "won_ENL"} }

IgnoredKinds ==
    { [type |-> "link", action |-> "link"],
      [type |-> "reso", action |-> "deploy"],
      [type |-> "portal", action |-> "captured"],
      [type |-> "portal", action |-> "destroy"],
      [type |-> "field", action |-> "field_RES"],
      [type |-> "field", action |-> "field_ENL"],
      [type |-> "field", action |-> "field"],
      [type |-> "field", action |-> "destroy"],
      [type |-> "mod", action |-> "destroy"],
      [type |-> "unknown", action |-> "destroy"],
      [type |-> "unknown", action |-> "unknown"] }

\* The actions a replay may meet over the portals of st.  Link events name
\* two portals, the others one: target_portal_id is read for type link only.
\* The unknown portal and the missing identifier appear in each position.
ActionInputs(st) ==
    LET known == DOMAIN st.portalStates
        first == CHOOSE p \in known : \A q \in known : p = q \/ StrLess(p, q)
        pairs == {e \in known \X known : e[1] # e[2]}
                 \cup {<<p, UnknownId>> : p \in known}
                 \cup {<<UnknownId, first>>}
    IN  { Action(k.type, k.action, e[1], e[2]) : k \in LinkKinds, e \in pairs }
        \cup { Action(k.type, k.action, p, Null) : k \in PortalKinds, p \in known }
        \cup { Action(k.type, k.action, first, IF k.type = "link" THEN UnknownId ELSE Null) :
                 k \in IgnoredKinds }
        \cup { Action("reso", "destroy", UnknownId, Null),
               Action("reso", "deploy_ENL", UnknownId, Null),
               Action("battlebeacon", "won_RES", UnknownId, Null),
               Action("link", "link_ENL", first, Null),
               Action("link", "destroy", first, Null),
               Action("reso", "deploy_ENL", Null, Null),
               Action("reso", "destroy", Null, Null),
               Action("battlebeacon", "won_RES", Null, Null) }

NoAction == Action("none", "none", Null, Null)

\* Histories already in the actions table when the replay starts, over the
\* portals of a catalog in catalog order: none; a field whose corners hold
\* one, three and no resonators; the quadrilateral with both its fields, one
\* corner then brought to a full set of resonators.
Histories(portalsList) ==
    LET a == portalsList[1].id
        b == portalsList[2].id
        c == portalsList[3].id
        d == portalsList[4].id
    IN  { <<>>,
          << Action("portal", "captured_ENL", a, Null),
             Action("portal", "captured_ENL", b, Null),
             Action("reso", "deploy_ENL", b, Null),
             Action("reso", "deploy_ENL", b, Null),
             Action("link", "link_ENL", a, b),
             Action("link", "link_ENL", b, c),
             Action("link", "link_ENL", a, c) >>,
          << Action("link", "link_RES", a, b),
             Action("link", "link_RES", b, c),
             Action("link", "link_RES", c, d),
             Action("link", "link_RES", d, a),
             Action("link", "link_RES", c, a),
             Action("reso", "destroy", d, Null),
             Action("reso", "deploy_RES", d, Null) >> }

MaxFieldSteps == 1

\* Both links from a and from b to each portal of neighbours, in that order.
RECURSIVE LinksTo(_)
LinksTo(neighbours) ==
    IF neighbours = <<>>
    THEN <<>>
    ELSE << Action("link", "link_RES", <<"a">>, Head(neighbours)),
            Action("link", "link_RES", <<"b">>, Head(neighbours)) >>
         \o LinksTo(Tail(neighbours))

\* Field setups: a catalog and the earlier rows of actions, which link a and
\* b to some of the other portals, the edge a-b itself not yet linked.
FieldSetups ==
    { [portals |-> FieldCatalog, history |-> LinksTo(<< <<"c">>, <<"g">>, <<"f">>, <<"e">> >>)],
      [portals |-> FieldCatalog, history |-> LinksTo(<< <<"e">>, <<"g">>, <<"c">> >>)],
      [portals |-> FieldCatalog, history |-> LinksTo(<< <<"e">> >>)],
      [portals |-> TwinCatalog, history |-> LinksTo(<< <<"c">>, <<"d">> >>)],
      [portals |-> TwinCatalog, history |-> LinksTo(<< <<"d">>, <<"c">> >>)] }

----------------------------------------------------------------------------
\* The normalizer and the history store (class IngressHistorySimulator)
\*
\* A raw feed record is [id, timestamp, text, markup].  text is the set of
\* key phrases the plext text contains (the code only asks text.includes of
\* fixed phrases); markup is the sequence of tags.  A record without plext
\* has no phrase and no tag.

\* text.includes(phrase); 'created a Control Field' contains 'Control Field'.
TextIncludes(text, phrase) ==
    \/ phrase \in text
    \/ phrase = "Control Field" /\ "created a Control Field" \in text

\* parseE6, on coordinates that are whole degrees.
parseE6(e6) == e6 \div 1000000

PlayerTag(team) ==
    [tag |-> "PLAYER", team |-> team, guid |-> Null, name |-> Null,
     latE6 |-> 0, lngE6 |-> 0, address |-> ""]

FactionTag(team) ==
    [tag |-> "FACTION", team |-> team, guid |-> Null, name |-> Null,
     latE6 |-> 0, lngE6 |-> 0, address |-> ""]

\* A PORTAL tag; guid and name are strings.
PortalTag(guid, name, latE6, lngE6, team) ==
    [tag |-> "PORTAL", team |-> team, guid |-> guid, name |-> name,
     latE6 |-> latE6, lngE6 |-> lngE6, address |-> "addr"]

\* markup.find(m => m[0] === tag): the first such tag, or none (<<>>).
FindTag(markup, tag) ==
    LET found == SelectSeq(markup, LAMBDA m : m.tag = tag)
    IN  IF found = <<>> THEN Null ELSE found[1]

\* As IsIgnored, applied only to texts that do not say 'destroyed'.
IsIgnored_unlessDestroyed(text) ==
    /\ ~TextIncludes(text, "destroyed")
    /\ \/ TextIncludes(text, "is under attack by")
       \/ TextIncludes(text, "Your Kinetic Capsule now ready")
       \/ TextIncludes(text, "Drone returned")

\* IGNORE RULES
IsIgnored(text) ==
    \/ TextIncludes(text, "is under attack by")
    \/ TextIncludes(text, "Your Kinetic Capsule now ready")
    \/ TextIncludes(text, "Drone returned")

\* EXTRACT TEAM FROM MARKUP: 'RES', 'ENL' or null.
TeamSuffix(markup) ==
    LET playerTag == FindTag(markup, "PLAYER")
    IN  IF playerTag = Null THEN "null"
        ELSE IF playerTag.team = "RESISTANCE" THEN "RES"
        ELSE IF playerTag.team = "ENLIGHTENED" THEN "ENL"
        ELSE "null"

\* tagAction: `${baseAction}_${teamSuffix}`, or baseAction without a suffix.
tagAction(baseAction, teamSuffix) ==
    CASE teamSuffix = "null" -> baseAction
      [] baseAction = "deploy" -> IF teamSuffix = "RES" THEN "deploy_RES" ELSE "deploy_ENL"
      [] baseAction = "link" -> IF teamSuffix = "RES" THEN "link_RES" ELSE "link_ENL"
      [] baseAction = "field" -> IF teamSuffix = "RES" THEN "field_RES" ELSE "field_ENL"
      [] baseAction = "captured" ->
            IF teamSuffix = "RES" THEN "captured_RES" ELSE "captured_ENL"

\* DETERMINE ACTION & TYPE: [action, type].
Classify(text, markup) ==
    LET teamSuffix == TeamSuffix(markup)
        factionTag == FindTag(markup, "FACTION")
        winningTeam == IF factionTag # Null THEN factionTag.team ELSE "UNKNOWN"
    IN  IF TextIncludes(text, "destroyed")
        THEN [action |-> "destroy",
              type |-> IF TextIncludes(text, "Resonator") THEN "reso"
                       ELSE IF TextIncludes(text, "Link") THEN "link"
                       ELSE IF TextIncludes(text, "Control Field") THEN "field"
                       ELSE IF TextIncludes(text, "Mod") THEN "mod"
                       ELSE "unknown"]
        ELSE IF TextIncludes(text, "neutralized by")
        THEN [action |-> "destroy", type |-> "portal"]
        ELSE IF TextIncludes(text, "won a CAT-")
        THEN [action |-> IF winningTeam = "RESISTANCE" THEN "won_RES" ELSE "won_ENL",
              type |-> "battlebeacon"]
        ELSE IF TextIncludes(text, "deployed")
        THEN [action |-> tagAction("deploy", teamSuffix), type |-> "reso"]
        ELSE IF TextIncludes(text, "linked")
        THEN [action |-> tagAction("link", teamSuffix), type |-> "link"]
        ELSE IF TextIncludes(text, "created a Control Field")
        THEN [action |-> tagAction("field", teamSuffix), type |-> "field"]
        ELSE IF TextIncludes(text, "captured")
        THEN [action |-> tagAction("captured", teamSuffix), type |-> "portal"]
        ELSE [action |-> "unknown", type |-> "unknown"]

\* formatPortal
formatPortal(p) ==
    [id |-> p.guid, lat |-> parseE6(p.latE6), lng |-> parseE6(p.lngE6),
     name |-> p.name, address |-> p.address, team |-> p.team]

\* The body of rawList.map: the parsed record of one item, or null (<<>>).
ParseItem(item) ==
    IF IsIgnored(item.text)
    THEN Null
    ELSE LET portals == SelectSeq(item.markup, LAMBDA m : m.tag = "PORTAL")
             kind == Classify(item.text, item.markup)
         IN  [id |-> item.id, action |-> kind.action, type |-> kind.type,
              timestamp |-> item.timestamp,
              cords1 |-> IF Len(portals) >= 1 THEN formatPortal(portals[1]) ELSE Null,
              cords2 |-> IF Len(portals) >= 2 THEN formatPortal(portals[2]) ELSE Null]

\* #parseIngressData: map, then filter(item => item !== null).
parseIngressData(items) ==
    SelectSeq([i \in DOMAIN items |-> ParseItem(items[i])], LAMBDA d : d # Null)

\* As InsertOrIgnore, replacing the row of an existing key (INSERT OR REPLACE).
InsertOrIgnore_replace(table, id, row) ==
    [k \in DOMAIN table \cup {id} |-> IF k = id THEN row ELSE table[k]]

\* INSERT OR IGNORE on the primary key id.
InsertOrIgnore(table, id, row) ==
    IF id \in DOMAIN table THEN table ELSE table @@ (id :> row)

\* stmtPortal.run(cords.name, lat, lng, name, address, team) when cords and
\* cords.lat are truthy.
SavePortal(table, cords) ==
    IF cords # Null /\ cords.lat # 0
    THEN InsertOrIgnore(table, cords.name,
                        [id |-> cords.name, lat |-> cords.lat, lng |-> cords.lng,
                         name |-> cords.name, address |-> cords.address,
                         team |-> cords.team])
    ELSE table

\* stmtAction.run(d.id, d.timestamp, d.type, d.action, p1, p2)
SaveAction(table, d) ==
    InsertOrIgnore(table, d.id,
                   [id |-> d.id, timestamp |-> d.timestamp, type |-> d.type,
                    action |-> d.action,
                    portal_id |-> IF d.cords1 # Null THEN d.cords1.name ELSE Null,
                    target_portal_id |-> IF d.cords2 # Null THEN d.cords2.name ELSE Null])

\* #saveToDB: the two relations after parsedData.forEach.
RECURSIVE saveToDB(_, _)
saveToDB(db, parsedData) ==
    IF parsedData = <<>>
    THEN db
    ELSE LET d == Head(parsedData)
         IN  saveToDB([portals |-> SavePortal(SavePortal(db.portals, d.cords1), d.cords2),
                       actions |-> SaveAction(db.actions, d)],
                      Tail(parsedData))

\* Feed inputs.

\* The phrases the normalizer looks for.
Phrases ==
    { "is under attack by", "Your Kinetic Capsule now ready", "Drone returned",
      "destroyed", "Resonator", "Link", "Control Field", "Mod", "neutralized by",
      "won a CAT-", "deployed", "linked", "created a Control Field", "captured" }

Texts == { t \in SUBSET Phrases : Cardinality(t) <= MaxPhrases }

\* PORTAL tags: two portals, the first seen under either faction; a portal
\* with a different guid and the name of the first; a portal on the equator.
PortalTags ==
    { PortalTag(<<"g", "1">>, <<"a">>, 1000000, 0, "ENLIGHTENED"),
      PortalTag(<<"g", "1">>, <<"a">>, 1000000, 0, "RESISTANCE"),
      PortalTag(<<"g", "2">>, <<"b">>, 1000000, 4000000, "RESISTANCE"),
      PortalTag(<<"g", "3">>, <<"a">>, 4000000, 4000000, "RESISTANCE"),
      PortalTag(<<"g", "4">>, <<"d">>, 0, 4000000, "NEUTRAL") }

\* Leading tags of a markup: no PLAYER, a PLAYER of either faction or of an
\* unrecognized team, a FACTION tag of a beacon result.
LeadTags ==
    { <<>>, <<PlayerTag("RESISTANCE")>>, <<PlayerTag("ENLIGHTENED")>>,
      <<PlayerTag("NEUTRAL")>>, <<FactionTag("RESISTANCE")>>,
      <<FactionTag("ENLIGHTENED")>>, <<FactionTag("NEUTRAL")>> }

Markups ==
    LeadTags
    \cup { l \o <<p>> : l \in LeadTags, p \in PortalTags }
    \cup { l \o <<PortalTag(<<"g", "1">>, <<"a">>, 1000000, 0, "ENLIGHTENED"), p>> :
             l \in LeadTags, p \in PortalTags }

RawItem(id, timestamp, text, markup) ==
    [id |-> id, timestamp |-> timestamp, text |-> text, markup |-> markup]

\* Every record shape, for the normalizer.
RawRecords == { RawItem("e1", 1, t, m) : t \in Texts, m \in Markups }

\* A short feed, for the store: events e1..e5, e1 also as delivered a second
\* time with the portal's current team changed.
Feed ==
    { RawItem("e1", 1, {"captured"},
              <<PlayerTag("ENLIGHTENED"),
                PortalTag(<<"g", "1">>, <<"a">>, 1000000, 0, "ENLIGHTENED")>>),
      RawItem("e1", 1, {"captured"},
              <<PlayerTag("ENLIGHTENED"),
                PortalTag(<<"g", "1">>, <<"a">>, 1000000, 0, "RESISTANCE")>>),
      RawItem("e2", 2, {"linked"},
              <<PlayerTag("RESISTANCE"),
                PortalTag(<<"g", "1">>, <<"a">>, 1000000, 0, "RESISTANCE"),
                PortalTag(<<"g", "2">>, <<"b">>, 1000000, 4000000, "RESISTANCE")>>),
      RawItem("e3", 3, {"is under attack by", "destroyed"},
              <<PlayerTag("RESISTANCE"),
                PortalTag(<<"g", "2">>, <<"b">>, 1000000, 4000000, "RESISTANCE")>>),
      RawItem("e4", 4, {"destroyed", "Resonator"},
              <<PlayerTag("RESISTANCE"),
                PortalTag(<<"g", "4">>, <<"d">>, 0, 4000000, "NEUTRAL")>>),
      RawItem("e5", 5, {}, <<>>) }

\* Pages of one or two records.
Pages == { <<r>> : r \in Feed } \cup { <<r, s>> : r \in Feed, s \in Feed }

\* The store after #initDB on a new file, nothing fetched.
StoreEmpty ==
    /\ rawList = <<>>
    /\ parsed = <<>>
    /\ portalsTable = <<>>
    /\ actionsTable = <<>>
    /\ seen = {}
    /\ fetches = 0

\* The empty store, fetchHistoryUntil not called.
IngestIdle ==
    /\ StoreEmpty
    /\ history = <<>>
    /\ untilTimestampMs = 0
    /\ currentMaxTimestamp = 0
    /\ fetchPc = "idle"
    /\ responseData = [ok |-> TRUE, result |-> <<>>]
    /\ requests = 0
    /\ honest = TRUE

\* fetchHistoryUntil, one page: parsed = #parseIngressData(rawItems);
\* #saveToDB(parsed).  seen keeps the records of the pages persisted.
Persist(rawItems) ==
    \E db \in {saveToDB([portals |-> portalsTable, actions |-> actionsTable],
                        parseIngressData(rawItems))} :
        /\ rawList' = rawItems
        /\ parsed' = parseIngressData(rawItems)
        /\ portalsTable' = db.portals
        /\ actionsTable' = db.actions
        /\ seen' = seen \cup SeqRange(rawItems)
        /\ fetches' = fetches + 1

----------------------------------------------------------------------------
\* The screenshot bot (class IngressIceReplica) and the stop command

\* new IngressIceReplica(...), run() not yet called, the stop listener
\* installed by listenForStopCommand.
IceConstructed(shots) ==
    /\ icePc = "startBrowser"
    /\ stopRequested = FALSE
    /\ blocking = FALSE
    /\ counter = 0
    /\ numberOfScreenshots \in shots
    /\ listening = TRUE
    /\ stopSeen = FALSE
    /\ browserOpen = FALSE
    /\ isLoggedIn = FALSE
    /\ inFlight = 0

\* No bot in use.
IceIdle == IceConstructed({0})

\* run: await this.startBrowser()
StartBrowser ==
    /\ icePc = "startBrowser"
    /\ browserOpen' = TRUE
    /\ icePc' = "login"
    /\ UNCHANGED <<stopRequested, blocking, counter, numberOfScreenshots, listening,
                   stopSeen, isLoggedIn, inFlight>>
    /\ UNCHANGED NotIce

\* run: const isLoggedIn = await this.login()
Login ==
    /\ icePc = "login"
    /\ isLoggedIn' \in BOOLEAN
    /\ icePc' = "relaunch"
    /\ UNCHANGED <<stopRequested, blocking, counter, numberOfScreenshots, listening,
                   stopSeen, browserOpen, inFlight>>
    /\ UNCHANGED NotIce

\* run: await this.closeBrowser(); await this.startBrowser(isLoggedIn)
Relaunch ==
    /\ icePc = "relaunch"
    /\ browserOpen' = TRUE
    /\ icePc' = "capture"
    /\ UNCHANGED <<stopRequested, blocking, counter, numberOfScreenshots, listening,
                   stopSeen, isLoggedIn, inFlight>>
    /\ UNCHANGED NotIce

\* refreshAndTakeScreenshot, up to the first await: this.stopRequested =
\* false; let counter = 0; page.goto is started.
BeginCapture ==
    /\ icePc = "capture"
    /\ stopRequested' = FALSE
    /\ counter' = 0
    /\ icePc' = "goto"
    /\ UNCHANGED <<blocking, numberOfScreenshots, listening, stopSeen, browserOpen,
                   isLoggedIn, inFlight>>
    /\ UNCHANGED NotIce

\* page.goto has resolved: setInterval(...).
SetInterval ==
    /\ icePc = "goto"
    /\ icePc' = "interval"
    /\ UNCHANGED <<stopRequested, blocking, counter, numberOfScreenshots, listening,
                   stopSeen, browserOpen, isLoggedIn, inFlight>>
    /\ UNCHANGED NotIce

\* As Skips, never skipping.
Skips_never == FALSE

\* if (this.blocking) { ...; return }
Skips == blocking

\* The interval callback up to its first await: skip while blocking; on a
\* requested stop clear the interval and resolve; otherwise start a cycle.
Tick ==
    /\ icePc = "interval"
    /\ IF Skips
       THEN UNCHANGED <<icePc, blocking, inFlight>>
       ELSE IF stopRequested
       THEN icePc' = "settled" /\ blocking' = FALSE /\ UNCHANGED inFlight
       ELSE icePc' = icePc /\ blocking' = TRUE /\ inFlight' = inFlight + 1
    /\ UNCHANGED <<stopRequested, counter, numberOfScreenshots, listening, stopSeen,
                   browserOpen, isLoggedIn>>
    /\ UNCHANGED NotIce

\* The rest of a cycle: the screenshot is written; counter++; blocking =
\* false; at the configured count clear the interval and resolve.  counter
\* matters only up to the largest configured count and is kept one above it.
CycleDone ==
    /\ icePc = "interval"
    /\ inFlight > 0
    /\ counter' = IF counter <= MaxScreenshots THEN counter + 1 ELSE counter
    /\ blocking' = FALSE
    /\ inFlight' = inFlight - 1
    /\ icePc' = IF numberOfScreenshots # 0 /\ counter + 1 >= numberOfScreenshots
                THEN "settled"
                ELSE icePc
    /\ UNCHANGED <<stopRequested, numberOfScreenshots, listening, stopSeen, browserOpen,
                   isLoggedIn>>
    /\ UNCHANGED NotIce

\* A cycle throws: clearInterval, reject(error); blocking stays set.
CycleThrows ==
    /\ icePc = "interval"
    /\ inFlight > 0
    /\ icePc' = "settled"
    /\ inFlight' = inFlight - 1
    /\ UNCHANGED <<stopRequested, blocking, counter, numberOfScreenshots, listening,
                   stopSeen, browserOpen, isLoggedIn>>
    /\ UNCHANGED NotIce

\* run: finally { await this.closeBrowser() }
CloseBrowser ==
    /\ icePc = "settled"
    /\ browserOpen' = FALSE
    /\ icePc' = "done"
    /\ UNCHANGED <<stopRequested, blocking, counter, numberOfScreenshots, listening,
                   stopSeen, isLoggedIn, inFlight>>
    /\ UNCHANGED NotIce

\* 'stop' typed while run() is in progress: the listener removes itself and
\* calls iceBot.stop(), which sets stopRequested.
StopCommand ==
    /\ listening
    /\ icePc # "done"
    /\ listening' = FALSE
    /\ stopRequested' = TRUE
    /\ stopSeen' = TRUE
    /\ UNCHANGED <<icePc, blocking, counter, numberOfScreenshots, browserOpen,
                   isLoggedIn, inFlight>>
    /\ UNCHANGED NotIce

----------------------------------------------------------------------------
\* The replay driver (simulateHistory of class IngressHistorySimulator)
\*
\* Times are epoch milliseconds.  A row of actions is a row of the actions
\* table with its timestamp; its id is its rank in the table.

MaxInstant == 10
MaxStepSeconds == 2

Row(id, timestamp, type, verb, p, q) ==
    [id |-> id, timestamp |-> timestamp, type |-> type, action |-> verb,
     portal_id |-> p, target_portal_id |-> q]

\* Results of SELECT * FROM actions ORDER BY timestamp ASC over the portals
\* of a catalog: rows that share a timestamp, a link reported twice, an event
\* the simulator ignores, a capture reported twice.
TimedLogs(portalsList) ==
    LET a == portalsList[1].id
        b == portalsList[2].id
        c == portalsList[3].id
    IN  { << Row(1, 1000, "portal", "captured_ENL", a, Null),
             Row(2, 1000, "reso", "deploy_ENL", b, Null),
             Row(3, 1500, "link", "link_ENL", a, b),
             Row(4, 2000, "link", "link_ENL", a, b),
             Row(5, 3000, "field", "field_ENL", a, Null),
             Row(6, 3000, "link", "link_ENL", b, c),
             Row(7, 4200, "link", "link_ENL", a, c) >>,
          << Row(1, 500, "link", "link_RES", a, b),
             Row(2, 2000, "link", "link_RES", b, c),
             Row(3, 2000, "link", "link_RES", c, a),
             Row(4, 2500, "reso", "destroy", a, Null),
             Row(5, 4000, "portal", "captured_ENL", a, Null),
             Row(6, 4000, "portal", "captured_ENL", a, Null) >> }

\* Values of this.historyContextTime and of the screenshotTimestamp argument:
\* 0 when never set, else an instant before, between or after the rows.
Instants == {500 * k : k \in 0..MaxInstant}

\* const firstActionTime = actions[0].timestamp
firstActionTime(rows) == rows[1].timestamp

\* const lastActionTime = actions[actions.length - 1].timestamp
lastActionTime(rows) == rows[Len(rows)].timestamp

\* simulateHistory up to the simulation loop: the simulator built from the
\* portals table, the rows of actions, and the timing setup.  stepSeconds is
\* the configured interval, a positive number of seconds.
DriverStarted(portalsList) ==
    \E rows \in TimedLogs(portalsList), historyContextTime \in Instants,
       screenshotTimestamp \in Instants :
        /\ actions = rows
        /\ screenshotPerAction \in BOOLEAN
        /\ simulationStart = IF historyContextTime # 0
                             THEN historyContextTime
                             ELSE firstActionTime(rows)
        /\ recordingStart = IF screenshotTimestamp > 0
                            THEN screenshotTimestamp
                            ELSE simulationStart
        /\ stepSeconds \in 1..MaxStepSeconds
        /\ time = simulationStart
        /\ actionIdx = 0
        /\ frames = <<>>

\* simulateHistory not called.
DriverIdle ==
    /\ actions = <<>>
    /\ screenshotPerAction = FALSE
    /\ simulationStart = 0
    /\ recordingStart = 0
    /\ stepSeconds = 1
    /\ time = 0
    /\ actionIdx = 0
    /\ frames = <<>>

----------------------------------------------------------------------------
\* The state machine: the replay loop of simulateHistory calling
\* processAction on each row of actions in turn.  pending is the part of the
\* log fixed in Init; after it the log continues with any MaxSteps actions.

State == [portalStates |-> portalStates, portalResonators |-> portalResonators,
          links |-> links, fields |-> fields]

InitWith(catalogs) ==
    \E portalsList \in catalogs :
        /\ portalStates = Construct(portalsList).portalStates
        /\ portalResonators = Construct(portalsList).portalResonators
        /\ links = Construct(portalsList).links
        /\ fields = Construct(portalsList).fields
        /\ pending \in Histories(portalsList)
        /\ last = NoAction
        /\ ret = FALSE
        /\ steps = 0
        /\ catalog = portalsList
        /\ log = <<>>
        /\ IngestIdle
        /\ IceIdle
        /\ DriverIdle

\* The replay started on a field setup.
InitFields ==
    \E setup \in FieldSetups :
        /\ portalStates = Construct(setup.portals).portalStates
        /\ portalResonators = Construct(setup.portals).portalResonators
        /\ links = Construct(setup.portals).links
        /\ fields = Construct(setup.portals).fields
        /\ pending = setup.history
        /\ last = NoAction
        /\ ret = FALSE
        /\ steps = 0
        /\ catalog = setup.portals
        /\ log = <<>>
        /\ IngestIdle
        /\ IceIdle
        /\ DriverIdle

Init == InitWith(Catalogs)

\* The next row of the log.
NextActions ==
    IF pending # <<>> THEN {Head(pending)} ELSE ActionInputs(State)

\* const shouldCapture = simulator.processAction(action)
CallProcessAction(action) ==
    \E r \in {processAction(State, action)} :
        /\ portalStates' = r.st.portalStates
        /\ portalResonators' = r.st.portalResonators
        /\ links' = r.st.links
        /\ fields' = r.st.fields
        /\ last' = action
        /\ ret' = r.changed
        /\ pending' = IF pending # <<>> THEN Tail(pending) ELSE pending
        /\ steps' = IF pending # <<>> THEN steps ELSE steps + 1
        /\ UNCHANGED catalog

\* One processAction call of the replay loop.
ProcessAction ==
    /\ pending # <<>> \/ steps < MaxSteps
    /\ \E action \in NextActions : CallProcessAction(action)
    /\ UNCHANGED <<log, NotSim>>

Next == ProcessAction

Spec == Init /\ [][Next]_vars

\* The same call, the rows processed so far being kept in log.
LoggedProcessAction ==
    /\ pending # <<>> \/ steps < MaxLog
    /\ \E action \in NextActions :
          CallProcessAction(action) /\ log' = Append(log, action)
    /\ UNCHANGED NotSim

NextLogged == LoggedProcessAction

SpecLogged == Init /\ [][NextLogged]_vars

\* A second, fresh simulator fed the rows of actions in order: its state and
\* the flag of its last call (false before any call).
RECURSIVE ReplayFrom(_, _)
ReplayRest(r, rows) ==
    IF r.changed \in BOOLEAN THEN ReplayFrom(r, rows) ELSE r

ReplayFrom(r, rows) ==
    IF rows = <<>>
    THEN r
    ELSE ReplayRest(processAction(r.st, Head(rows)), Tail(rows))

SecondRun(portalsList, rows) ==
    ReplayFrom([st |-> Construct(portalsList), changed |-> FALSE], rows)

\* No simulator built yet.
SimIdle ==
    /\ portalStates = <<>>
    /\ portalResonators = <<>>
    /\ links = <<>>
    /\ fields = <<>>
    /\ pending = <<>>
    /\ last = NoAction
    /\ ret = FALSE
    /\ steps = 0
    /\ catalog = <<>>
    /\ log = <<>>

InitIngest == SimIdle /\ IngestIdle /\ IceIdle /\ DriverIdle

\* The normalizer and the store on one raw record of any shape.
NormalizeOne ==
    /\ fetches < 1
    /\ \E item \in RawRecords : Persist(<<item>>)
    /\ UNCHANGED loopVars
    /\ UNCHANGED NotIngest

NextNormalize == NormalizeOne

SpecNormalize == InitIngest /\ [][NextNormalize]_vars

\* One iteration of the fetch loop of fetchHistoryUntil on a page of the feed.
FetchPage ==
    /\ fetches < MaxFetches
    /\ \E page \in Pages : Persist(page)
    /\ UNCHANGED loopVars
    /\ UNCHANGED NotIngest

NextIngest == FetchPage

SpecIngest == InitIngest /\ [][NextIngest]_vars

\* stop() called on the ingester (the method IngressHistorySimulator inherits
\* from IngressIceReplica) while fetchHistoryUntil is running.
StopDuringFetch ==
    /\ ~stopRequested
    /\ stopRequested' = TRUE
    /\ UNCHANGED <<icePc, blocking, counter, numberOfScreenshots, listening, stopSeen,
                   browserOpen, isLoggedIn, inFlight>>
    /\ UNCHANGED NotIce

NextFetchStop ==
    \/ FetchPage
    \/ StopDuringFetch

\* fetchHistoryUntil with stop() arriving at any point between its pages.
SpecFetchStop == InitIngest /\ [][NextFetchStop]_vars

\* Feed events of the history, by position: a message the normalizer drops,
\* a capture, a link, a resonator destroyed.
EventIds == <<"h1", "h2", "h3", "h4", "h5", "h6", "h7", "h8">>

EventAt(i, timestamp) ==
    LET a == PortalTag(<<"g", "1">>, <<"a">>, 1000000, 0, "ENLIGHTENED")
        b == PortalTag(<<"g", "2">>, <<"b">>, 1000000, 4000000, "ENLIGHTENED")
    IN  CASE i % 4 = 1 ->
               RawItem(EventIds[i], timestamp, {"is under attack by"},
                       <<PlayerTag("RESISTANCE"), b>>)
          [] i % 4 = 2 ->
               RawItem(EventIds[i], timestamp, {"captured"}, <<PlayerTag("ENLIGHTENED"), a>>)
          [] i % 4 = 3 ->
               RawItem(EventIds[i], timestamp, {"linked"}, <<PlayerTag("ENLIGHTENED"), a, b>>)
          [] OTHER ->
               RawItem(EventIds[i], timestamp, {"destroyed", "Resonator"},
                       <<PlayerTag("RESISTANCE"), b>>)

\* The feed's histories, newest event first: up to MaxEvents events with
\* timestamps in 1..MaxTimestamp, several of them possibly at one timestamp.
FeedHistories ==
    UNION { { [i \in 1..n |-> EventAt(i, ts[i])] :
                ts \in { f \in [1..n -> 1..MaxTimestamp] :
                            \A i \in 1..n, j \in 1..n : i < j => f[i] >= f[j] } } :
            n \in 0..MaxEvents }

\* The events of the history at or below the cursor, newest first.
AtOrBelow(maxTimestampMs) ==
    SelectSeq(history, LAMBDA e : e.timestamp <= maxTimestampMs)

\* The elements of s at the positions in idx, in the order of s.
PickSeq(s, idx) ==
    [k \in 1..Cardinality(idx) |->
        s[CHOOSE i \in idx : Cardinality({j \in idx : j < i}) = k - 1]]

\* The page the feed owes for a cursor: the newest events at or below it, up
\* to the page size.
NewestPage(maxTimestampMs) ==
    LET e == AtOrBelow(maxTimestampMs)
    IN  SubSeq(e, 1, Min(Len(e), PageLimit))

\* What page.evaluate may resolve to for the payload's maxTimestampMs: null
\* (fetch threw), or a result holding up to PageLimit events at or below the
\* cursor, newest first.
Responses(maxTimestampMs) ==
    LET e == AtOrBelow(maxTimestampMs)
    IN  { [ok |-> FALSE, result |-> <<>>] }
        \cup { [ok |-> TRUE, result |-> PickSeq(e, idx)] :
                 idx \in { s \in SUBSET DOMAIN e : Cardinality(s) <= PageLimit } }

\* fetchHistoryUntil(untilTimestampMs) entering while (true): the store is
\* empty, the base payload was captured, currentMaxTimestamp is now.
InitFetchLoop ==
    /\ SimIdle /\ IceIdle /\ DriverIdle
    /\ StoreEmpty
    /\ history \in FeedHistories
    /\ untilTimestampMs \in 0..MaxTimestamp
    /\ currentMaxTimestamp = MaxTimestamp
    /\ fetchPc = "loop"
    /\ responseData = [ok |-> TRUE, result |-> <<>>]
    /\ requests = 0
    /\ honest = TRUE

\* As NextCursor, asking again from the oldest timestamp itself.
NextCursor_same(oldestTimestamp) == oldestTimestamp

\* currentMaxTimestamp = oldestTimestamp - 1
NextCursor(oldestTimestamp) == oldestTimestamp - 1

\* One iteration of while (true): the request with maxTimestampMs =
\* currentMaxTimestamp, then return on a null or empty response; otherwise
\* parse and save the page, return when its last item is older than the
\* floor, else move the cursor below that item and go round again.
FetchIteration ==
    /\ fetchPc = "loop"
    /\ \E response \in Responses(currentMaxTimestamp) :
          /\ responseData' = response
          /\ requests' = requests + 1
          /\ honest' = (honest /\ response.ok
                                /\ response.result = NewestPage(currentMaxTimestamp))
          /\ IF ~response.ok \/ Len(response.result) = 0
             THEN /\ fetchPc' = "done"
                  /\ UNCHANGED <<rawList, parsed, portalsTable, actionsTable, seen,
                                 fetches, currentMaxTimestamp>>
             ELSE LET rawItems == response.result
                      oldestTimestamp == rawItems[Len(rawItems)].timestamp
                  IN  /\ Persist(rawItems)
                      /\ IF oldestTimestamp < untilTimestampMs
                         THEN /\ fetchPc' = "done"
                              /\ UNCHANGED currentMaxTimestamp
                         ELSE /\ fetchPc' = "loop"
                              /\ currentMaxTimestamp' = NextCursor(oldestTimestamp)
    /\ UNCHANGED <<history, untilTimestampMs>>
    /\ UNCHANGED NotIngest

NextFetchLoop == FetchIteration

\* Every request returns: page.evaluate resolves (the fetch error is caught
\* and becomes null) and the 1500 ms timer fires, so an iteration that can
\* run does run.
SpecFetchLoop == InitFetchLoop /\ [][NextFetchLoop]_vars /\ WF_vars(FetchIteration)

\* The bot of index.js: any configured count, run() called once.
InitIce == SimIdle /\ IngestIdle /\ IceConstructed(0..MaxScreenshots) /\ DriverIdle

NextIce ==
    \/ StartBrowser
    \/ Login
    \/ Relaunch
    \/ BeginCapture
    \/ SetInterval
    \/ Tick
    \/ CycleDone
    \/ CycleThrows
    \/ CloseBrowser
    \/ StopCommand

\* Timer ticks keep firing, every started cycle completes unless it throws,
\* and every await of run() returns.
IceFairness ==
    /\ WF_vars(StartBrowser)
    /\ WF_vars(Login)
    /\ WF_vars(Relaunch)
    /\ WF_vars(BeginCapture)
    /\ WF_vars(SetInterval)
    /\ WF_vars(Tick)
    /\ WF_vars(CycleDone)
    /\ WF_vars(CloseBrowser)

SpecIce == InitIce /\ [][NextIce]_vars /\ IceFairness

\* simulateHistory on a populated store, in either mode.
InitDriver ==
    /\ portalStates = Construct(PlainCatalog).portalStates
    /\ portalResonators = Construct(PlainCatalog).portalResonators
    /\ links = Construct(PlainCatalog).links
    /\ fields = Construct(PlainCatalog).fields
    /\ pending = <<>>
    /\ last = NoAction
    /\ ret = FALSE
    /\ steps = 0
    /\ catalog = PlainCatalog
    /\ log = <<>>
    /\ IngestIdle
    /\ IceIdle
    /\ DriverStarted(PlainCatalog)

\* simulator.processAction(action) called by the driver; log keeps the rows
\* passed so far.
DriverProcessAction(action) ==
    \E r \in {processAction(State, action)} :
        /\ portalStates' = r.st.portalStates
        /\ portalResonators' = r.st.portalResonators
        /\ links' = r.st.links
        /\ fields' = r.st.fields
        /\ last' = action
        /\ ret' = r.changed
        /\ log' = Append(log, action)
        /\ UNCHANGED <<pending, steps, catalog>>

\* captureFrame(time): the snapshot of simulator.getCurrentState() rendered
\* with its display time.
captureFrame(t, st) ==
    Append(frames, [time |-> t, state |-> getCurrentState(st)])

\* As EmitsFrame, without the flag processAction returned.
EmitsFrame_everyRow(shouldCapture, timestamp) ==
    timestamp >= recordingStart

\* if (action.timestamp >= recordingStart) { shouldCapture ? captureFrame : null }
EmitsFrame(shouldCapture, timestamp) ==
    timestamp >= recordingStart /\ shouldCapture

\* One iteration of for (const action of actions); actionIdx is the number
\* of rows the iterator has yielded.
PerActionStep ==
    /\ screenshotPerAction
    /\ actionIdx < Len(actions)
    /\ DriverProcessAction(actions[actionIdx + 1])
    /\ actionIdx' = actionIdx + 1
    /\ frames' = IF EmitsFrame(ret', actions[actionIdx + 1].timestamp)
                 THEN captureFrame(actions[actionIdx + 1].timestamp, State')
                 ELSE frames
    /\ UNCHANGED <<actions, screenshotPerAction, simulationStart, recordingStart,
                   stepSeconds, time>>
    /\ UNCHANGED NotDriver

\* As MoreToDrain, leaving the rows stamped with the step time for later.
MoreToDrain_strict ==
    actionIdx < Len(actions) /\ actions[actionIdx + 1].timestamp < time

\* while (actionIdx < actions.length && actions[actionIdx].timestamp <= time)
MoreToDrain ==
    actionIdx < Len(actions) /\ actions[actionIdx + 1].timestamp <= time

\* One iteration of the while loop inside a time step.
DrainOne ==
    /\ ~screenshotPerAction
    /\ time <= lastActionTime(actions)
    /\ MoreToDrain
    /\ DriverProcessAction(actions[actionIdx + 1])
    /\ actionIdx' = actionIdx + 1
    /\ UNCHANGED <<actions, screenshotPerAction, simulationStart, recordingStart,
                   stepSeconds, time, frames>>
    /\ UNCHANGED NotDriver

\* The rest of a time step: if (time >= recordingStart) captureFrame(time);
\* then time += stepSeconds * 1000.
EndOfStep ==
    /\ ~screenshotPerAction
    /\ time <= lastActionTime(actions)
    /\ ~MoreToDrain
    /\ frames' = IF time >= recordingStart THEN captureFrame(time, State) ELSE frames
    /\ time' = time + stepSeconds * 1000
    /\ UNCHANGED <<actions, screenshotPerAction, simulationStart, recordingStart,
                   stepSeconds, actionIdx>>
    /\ UNCHANGED <<simVars, log, NotDriver>>

NextDriver ==
    \/ PerActionStep
    \/ DrainOne
    \/ EndOfStep

SpecDriver == InitDriver /\ [][NextDriver]_vars

\* One more processAction call of the replay over a field setup.
FieldProcessAction ==
    /\ pending # <<>> \/ steps < MaxFieldSteps
    /\ \E action \in NextActions : CallProcessAction(action)
    /\ UNCHANGED <<log, NotSim>>

NextFields == FieldProcessAction

\* The replay over the field setups: the links to the neighbours are in the
\* log, any action follows.
SpecFields == InitFields /\ [][NextFields]_vars

\* The same replay over identifiers none of which contains another or a hyphen.
SpecPlain == InitWith({PlainCatalog}) /\ [][Next]_vars

----------------------------------------------------------------------------
\* Vocabulary of the properties

CatalogIds == DOMAIN portalStates

\* Identifiers an action may carry.
AllIds == CatalogIds \cup {UnknownId}

LinkSet == SeqRange(links)

FieldSet == SeqRange(fields)

TeamOf(id) == portalStates[id].team

\* The stored key k is the link {a, b}.
Joins(k, a, b) == k = getLinkKey(a, b)

\* Some stored link has id as an endpoint.
HasIncidentLink(id) == \E k \in LinkSet, other \in AllIds : Joins(k, id, other)

\* Some field has id as a vertex.
IsFieldVertex(id) == \E f \in FieldSet : id \in {f.p1, f.p2, f.p3}

LastIsResoDestroy == last.type = "reso" /\ last.action = "destroy"

LastIsLinkCreate == last.type = "link" /\ last.action \in {"link_RES", "link_ENL"}

LastIsBeacon == last.action \in {"won_RES", "won_ENL"}

LastIsDeploy ==
    last.action \in {"deploy_RES", "deploy_ENL", "captured_RES", "captured_ENL"}

\* getCurrentState(State') # getCurrentState(State), field by field: a
\* portal record (its team), the links of the snapshot, or the field array.
\* Resonator counts are not in the snapshot.  Equal key sequences give equal
\* snapshot links, so the keys are split only when they differ.
VisibleChange ==
    \/ portalStates' # portalStates
    \/ fields' # fields
    \/ (links' # links /\ SnapshotLinks(links') # SnapshotLinks(links))

----------------------------------------------------------------------------
\* C1: after every processAction call every field {p1,p2,p3} has its three
\* edges {p1,p2}, {p2,p3}, {p3,p1} in the link set.
C1_FieldEdgesPresent ==
    \A f \in FieldSet :
        /\ getLinkKey(f.p1, f.p2) \in LinkSet
        /\ getLinkKey(f.p2, f.p3) \in LinkSet
        /\ getLinkKey(f.p3, f.p1) \in LinkSet

\* C2: after every processAction call no two stored links without a common
\* endpoint properly intersect.
C2_LinksNonCrossing ==
    \A k1 \in LinkSet, k2 \in LinkSet :
        \A a \in CatalogIds, b \in CatalogIds, c \in CatalogIds, d \in CatalogIds :
            (Joins(k1, a, b) /\ Joins(k2, c, d) /\ {a, b} \cap {c, d} = {})
                => ~doLinksIntersect(portalStates[a], portalStates[b],
                                     portalStates[c], portalStates[d])

\* C3: after every processAction call both endpoints of every stored link
\* exist in the portal catalog.
C3_LinkEndpointsInCatalog ==
    \A k \in LinkSet : \E a \in CatalogIds, b \in CatalogIds : Joins(k, a, b)

\* C4, as claimed: every portal with 2 resonators or fewer has no incident
\* link.
C4_LowResonatorsNoLinks ==
    \A p \in CatalogIds : portalResonators[p] <= 2 => ~HasIncidentLink(p)

\* C4, amended: right after a resonator-destroy action that leaves a catalog
\* portal with 2 resonators or fewer, that portal has no incident link.
C4_LinksFailOnDestroy ==
    (LastIsResoDestroy /\ last.portal_id \in CatalogIds
        /\ portalResonators[last.portal_id] <= 2)
        => ~HasIncidentLink(last.portal_id)

\* A resonator-destroy took a linked portal down to 2 resonators: the links
\* went, the faction stayed.
C4_Witness ==
    /\ LastIsResoDestroy
    /\ last.portal_id \in CatalogIds
    /\ portalResonators[last.portal_id] = 2
    /\ TeamOf(last.portal_id) = "ENL"
    /\ ret

\* C5: after every processAction call every NEUTRAL portal has resonator
\* count 0.
C5_NeutralHasNoResonators ==
    \A p \in CatalogIds : TeamOf(p) = "NEUTRAL" => portalResonators[p] = 0

\* C6, as claimed: every portal with resonator count 0 has team NEUTRAL.
C6_ZeroResonatorsNeutral ==
    \A p \in CatalogIds : portalResonators[p] = 0 => TeamOf(p) = "NEUTRAL"

\* C6, amended: a processAction call leaves a portal with resonator count 0
\* and a faction only if the portal was so before with that faction, or the
\* call is a link action naming the portal or a battle-beacon outcome on it;
\* capture, deploy and resonator destruction never do.
C6_ZeroResonatorsFactionOnlyForced ==
    [][\A p \in CatalogIds :
          (portalResonators'[p] = 0 /\ portalStates'[p].team # "NEUTRAL")
              => \/ (portalResonators[p] = 0
                     /\ portalStates[p].team = portalStates'[p].team)
                 \/ (last'.type = "link"
                     /\ last'.action \in {"link_RES", "link_ENL"}
                     /\ p \in {last'.portal_id, last'.target_portal_id})
                 \/ (last'.action \in {"won_RES", "won_ENL"}
                     /\ p = last'.portal_id)]_vars

\* The last resonator of a portal that held links was destroyed: the portal
\* is NEUTRAL at count 0.
C6_Witness ==
    /\ LastIsResoDestroy
    /\ last.portal_id \in CatalogIds
    /\ portalResonators[last.portal_id] = 0
    /\ TeamOf(last.portal_id) = "NEUTRAL"
    /\ ret

\* C7: processAction returns true exactly when what getCurrentState shows
\* differs before and after the call: a portal's team changed, or a link was
\* added or removed, or a field was added or removed.
C7_VisibleChangeIffSnapshotDiffers ==
    [][ret' <=> VisibleChange]_vars

\* A reinforcing deploy on a linked portal returned false, and a field-making
\* link is in place.
C7_Witness ==
    /\ LastIsDeploy
    /\ last.portal_id \in CatalogIds
    /\ portalResonators[last.portal_id] >= 2
    /\ HasIncidentLink(last.portal_id)
    /\ fields # <<>>
    /\ ~ret

\* C8: after every processAction call the two endpoints of every stored link
\* have the same faction.
C8_LinkedPortalsSameFaction ==
    \A k \in LinkSet : \A a \in CatalogIds, b \in CatalogIds :
        Joins(k, a, b) => TeamOf(a) = TeamOf(b)

\* C9: after every processAction call each vertex of every field has the
\* field's owning faction.
C9_FieldVerticesHaveFieldFaction ==
    \A f \in FieldSet : \A v \in {f.p1, f.p2, f.p3} :
        v \in CatalogIds /\ TeamOf(v) = f.team

\* C10: after every processAction call a NEUTRAL portal has no incident link
\* and is a vertex of no field.
C10_NeutralPortalsBare ==
    \A p \in CatalogIds :
        TeamOf(p) = "NEUTRAL" => ~HasIncidentLink(p) /\ ~IsFieldVertex(p)

\* C11: link keys are canonical: getLinkKey(a, b) = getLinkKey(b, a), the
\* link set never holds both a-b and b-a for a pair of identifiers, and no
\* key is stored twice.
C11_LinkKeysCanonical ==
    /\ \A i \in DOMAIN links, j \in DOMAIN links : i # j => links[i] # links[j]
    /\ \A a \in AllIds, b \in AllIds :
          /\ getLinkKey(a, b) = getLinkKey(b, a)
          /\ a # b => ~(a \o <<"-">> \o b \in LinkSet /\ b \o <<"-">> \o a \in LinkSet)

\* A link action named an existing link with its endpoints in descending
\* order: nothing was added and nothing changed.
C11_Witness ==
    /\ LastIsLinkCreate
    /\ last.portal_id \in CatalogIds
    /\ last.target_portal_id \in CatalogIds
    /\ StrLess(last.target_portal_id, last.portal_id)
    /\ last.target_portal_id \o <<"-">> \o last.portal_id \in LinkSet
    /\ ~ret

C13_ResonatorsInRange ==
    \A p \in CatalogIds : portalResonators[p] \in 0..MaxResonators

\* The first call after the log is a deploy by the owner on the portal that
\* holds 8 resonators: the count is still 8.
C13_Witness ==
    /\ steps = 1
    /\ last.action = "deploy_RES"
    /\ last.portal_id \in CatalogIds
    /\ portalResonators[last.portal_id] = MaxResonators
    /\ ~ret

\* C14: ingest is idempotent: persisting a page all of whose events were
\* persisted before leaves the portals and actions relations as they were,
\* and no persist ever removes or modifies a row whose primary key exists
\* (a portal keeps its first-observed team).
C14_IngestIdempotent ==
    [][/\ (\A i \in DOMAIN rawList' : \E s \in seen : s.id = rawList'[i].id)
            => (portalsTable' = portalsTable /\ actionsTable' = actionsTable)
       /\ \A k \in DOMAIN portalsTable :
            k \in DOMAIN portalsTable' /\ portalsTable'[k] = portalsTable[k]
       /\ \A k \in DOMAIN actionsTable :
            k \in DOMAIN actionsTable' /\ actionsTable'[k] = actionsTable[k]]_vars

\* Event e1 was persisted, then delivered and persisted again with the
\* portal's team changed: the stored row still has the first team.
C14_Witness ==
    /\ fetches = 2
    /\ Len(rawList) = 1
    /\ rawList[1].id = "e1"
    /\ \E i \in DOMAIN rawList[1].markup :
          rawList[1].markup[i].tag = "PORTAL" /\ rawList[1].markup[i].team = "RESISTANCE"
    /\ DOMAIN actionsTable = {"e1"}
    /\ <<"a">> \in DOMAIN portalsTable
    /\ portalsTable[<<"a">>].team = "ENLIGHTENED"

\* C15: a raw record whose text contains 'is under attack by', 'Your Kinetic
\* Capsule now ready' or 'Drone returned' yields no normalized action, no
\* actions row and no portals row, whatever else it carries; every other
\* record yields exactly one action, with the record's id.
C15_DropRules ==
    fetches = 1 =>
        IF rawList[1].text \cap {"is under attack by", "Your Kinetic Capsule now ready",
                                 "Drone returned"} # {}
        THEN parsed = <<>> /\ actionsTable = <<>> /\ portalsTable = <<>>
        ELSE /\ Len(parsed) = 1
             /\ parsed[1].id = rawList[1].id
             /\ DOMAIN actionsTable = {rawList[1].id}

\* A record that says both 'is under attack by' and 'destroyed', with a
\* PLAYER and a PORTAL tag, was dropped.
C15_Witness ==
    /\ fetches = 1
    /\ rawList[1].text = {"is under attack by", "destroyed"}
    /\ Len(rawList[1].markup) = 2
    /\ parsed = <<>>
    /\ portalsTable = <<>>

\* C16: every action the normalizer emits has its verb in the closed set
\* captured_RES, captured_ENL, deploy_RES, deploy_ENL, link_RES, link_ENL,
\* field_RES, field_ENL, destroy, won_RES, won_ENL, unknown.
C16_VerbsInClosedSet ==
    \A i \in DOMAIN parsed :
        parsed[i].action \in
            { "captured_RES", "captured_ENL", "deploy_RES", "deploy_ENL", "link_RES",
              "link_ENL", "field_RES", "field_ENL", "destroy", "won_RES", "won_ENL",
              "unknown" }

\* C17: safe stop: once stop() has been requested while run() is in
\* progress, the capture loop eventually settles and the browser is closed.
C17_StopLeadsToClose ==
    stopSeen ~> (icePc = "done" /\ ~browserOpen)

----------------------------------------------------------------------------
\* The replay driver

\* Rows in non-decreasing timestamp order.
InTimestampOrder(rows) ==
    \A i, j \in DOMAIN rows : i < j => rows[i].timestamp <= rows[j].timestamp

\* The rows of actions stamped t or earlier, in table order.
RowsUpTo(t) == SelectSeq(actions, LAMBDA row : row.timestamp <= t)

\* The frames a per-action replay of the first n rows owes: one for each row
\* in the recording window on which a fresh simulator, fed the rows up to
\* it, reports a visible change; each showing that simulator's snapshot.
RECURSIVE FramesOwed(_)
FramesOwed(n) ==
    IF n = 0
    THEN <<>>
    ELSE \* the run is computed once
         LET run == SecondRun(catalog, SubSeq(actions, 1, n))
             owed == run.changed /\ actions[n].timestamp >= recordingStart
         IN  IF owed
             THEN Append(FramesOwed(n - 1),
                         [time |-> actions[n].timestamp,
                          state |-> getCurrentState(run.st)])
             ELSE FramesOwed(n - 1)

\* C18: in per-action mode the rows passed to processAction are the first
\* rows of the log, each once, in non-decreasing timestamp order, and the
\* frames emitted are exactly one per row for which processAction returned
\* true and whose timestamp is at least recordingStart.
C18_PerActionFrames ==
    screenshotPerAction =>
        /\ log = SubSeq(actions, 1, actionIdx)
        /\ InTimestampOrder(log)
        /\ frames = FramesOwed(actionIdx)

\* The whole log replayed per action: a frame emitted, a row inside the
\* recording window that got none, and a row before the window.
C18_Witness ==
    /\ screenshotPerAction
    /\ actionIdx = Len(actions)
    /\ log = actions
    /\ frames # <<>>
    /\ \E i \in DOMAIN actions :
          /\ actions[i].timestamp >= recordingStart
          /\ \A k \in DOMAIN frames : frames[k].time # actions[i].timestamp
    /\ \E i \in DOMAIN actions : actions[i].timestamp < recordingStart

\* C19: in time-stepped mode a frame is emitted at the end of a step at time
\* t exactly when t >= recordingStart, and then the rows applied are all the
\* rows stamped t or earlier, each once and in order, and the frame shows
\* the state a fresh simulator reaches on exactly those rows.
C19_TimeSteppedFrames ==
    [][ ~screenshotPerAction =>
          /\ frames' # frames => time' # time
          /\ time' # time =>
                /\ (frames' # frames) <=> (time >= recordingStart)
                /\ frames' # frames =>
                      /\ log = RowsUpTo(time)
                      /\ frames' = Append(frames,
                            [time |-> time,
                             state |-> getCurrentState(
                                          SecondRun(catalog, RowsUpTo(time)).st)]) ]_vars

\* A time-stepped replay that skipped a step before recordingStart, then
\* emitted two frames, one at the timestamp of a row, with rows still to come.
C19_Witness ==
    /\ ~screenshotPerAction
    /\ simulationStart < recordingStart
    /\ Len(frames) >= 2
    /\ 0 < actionIdx /\ actionIdx < Len(actions)
    /\ \E k \in DOMAIN frames, i \in DOMAIN actions :
          frames[k].time = actions[i].timestamp
    /\ frames[Len(frames)].state # frames[1].state

\* C20: no row stamped earlier than simulationStart is passed to
\* processAction, in either mode.
C20_NoRowBeforeSimulationStart ==
    \A i \in DOMAIN log : log[i].timestamp >= simulationStart

----------------------------------------------------------------------------
\* The ingester and the stop flag

\* C21: ingest cancellation is cooperative: once stop has been requested, no
\* further page of the feed is requested.
C21_NoPageAfterStop ==
    [][stopRequested => fetches' = fetches]_vars

----------------------------------------------------------------------------
\* Resonator destruction

\* C22: a resonator-destroy action on a catalog portal lowers the portal's
\* resonator count by exactly one when it is positive and leaves it at 0
\* when it is 0, whatever the portal's team.
C22_ResoDestroyDecrements ==
    [][(last'.type = "reso" /\ last'.action = "destroy"
            /\ last'.portal_id \in CatalogIds)
          => portalResonators'[last'.portal_id] =
                IF portalResonators[last'.portal_id] > 0
                THEN portalResonators[last'.portal_id] - 1
                ELSE 0]_vars

\* C23: after a resonator-destroy action on a catalog portal, a resulting
\* count of 2 or less leaves the portal with no incident link and on no
\* field; the team is NEUTRAL when the resulting count is 0 and is the team
\* it was otherwise; and a resulting count above 2 leaves teams, links and
\* fields as they were, the call returning false.
C23_ResoDestroyEffects ==
    [][\A p \in CatalogIds :
          (last'.type = "reso" /\ last'.action = "destroy" /\ last'.portal_id = p)
          => /\ portalResonators'[p] <= 2
                  => (~HasIncidentLink(p)' /\ ~IsFieldVertex(p)')
             /\ portalResonators'[p] = 0 => portalStates'[p].team = "NEUTRAL"
             /\ portalResonators'[p] # 0
                  => portalStates'[p].team = portalStates[p].team
             /\ portalResonators'[p] > 2
                  => (portalStates' = portalStates /\ links' = links
                      /\ fields' = fields /\ ~ret')]_vars

\* A resonator of a well-defended corner of a field was destroyed: more than
\* two remain, and its links and the field stand.
C23_Witness ==
    /\ LastIsResoDestroy
    /\ last.portal_id \in CatalogIds
    /\ portalResonators[last.portal_id] > 2
    /\ HasIncidentLink(last.portal_id)
    /\ IsFieldVertex(last.portal_id)
    /\ ~ret

----------------------------------------------------------------------------
\* Faction flip

\* C24: a deploy_T or captured_T action on a catalog portal held by the
\* opposing faction sets its team to T and its resonator count to 1, leaves
\* it with no incident link and on no field, and returns true.
C24_FlipClearsPortal ==
    [][\A p \in CatalogIds, T \in {"RES", "ENL"} :
          (/\ last'.action \in {"deploy_" \o T, "captured_" \o T}
           /\ last'.portal_id = p
           /\ portalStates[p].team \notin {"NEUTRAL", T})
          => /\ portalStates'[p].team = T
             /\ portalResonators'[p] = 1
             /\ ~HasIncidentLink(p)'
             /\ ~IsFieldVertex(p)'
             /\ ret']_vars

\* The first action after the ENL field was built captured one of its
\* corners for RES: of the three links only the opposite edge is left, the
\* field is gone, and the other corners are still ENL.
C24_Witness ==
    /\ LastIsDeploy
    /\ last.portal_id \in CatalogIds
    /\ TeamOf(last.portal_id) = "RES"
    /\ portalResonators[last.portal_id] = 1
    /\ ret
    /\ pending = <<>> /\ steps = 1
    /\ Len(links) = 1
    /\ fields = <<>>
    /\ \E q \in CatalogIds : TeamOf(q) = "ENL" /\ HasIncidentLink(q)

----------------------------------------------------------------------------
\* Link creation

\* The call about to be recorded in last' is a link_T action with both
\* identifiers whose canonical key is not stored yet.
AddsNewLink ==
    /\ last'.type = "link"
    /\ last'.action \in {"link_RES", "link_ENL"}
    /\ last'.portal_id # Null
    /\ last'.target_portal_id # Null
    /\ getLinkKey(last'.portal_id, last'.target_portal_id) \notin LinkSet

\* The stored link k properly intersects the segment from portal id1 to
\* portal id2 (the predicate of the geometry kernel on the four portals).
Crosses(k, id1, id2) ==
    /\ id1 \in CatalogIds
    /\ id2 \in CatalogIds
    /\ \E a \in CatalogIds, b \in CatalogIds :
          /\ Joins(k, a, b)
          /\ doLinksIntersect(portalStates[id1], portalStates[id2],
                              portalStates[a], portalStates[b])

\* Field f has the link k as one of its three edges.
DependsOn(f, k) ==
    k \in {getLinkKey(f.p1, f.p2), getLinkKey(f.p2, f.p3), getLinkKey(f.p3, f.p1)}

\* C25: when a link action adds a new link, the new link is stored; a link
\* stored before is removed exactly when it properly intersects the new
\* one, and a field stored before is removed exactly when it depends on a
\* removed link.
C25_OlderCrossingLinkLoses ==
    [][AddsNewLink =>
          /\ getLinkKey(last'.portal_id, last'.target_portal_id) \in LinkSet'
          /\ \A k \in LinkSet :
                k \in LinkSet' <=> ~Crosses(k, last'.portal_id, last'.target_portal_id)
          /\ \A f \in FieldSet :
                f \in FieldSet' <=>
                    ~\E k \in LinkSet :
                        /\ Crosses(k, last'.portal_id, last'.target_portal_id)
                        /\ DependsOn(f, k)]_vars

\* The fields stored before the call that are still stored after it, and
\* the fields the call pushed after them.
KeptFields == SelectSeq(fields, LAMBDA f : f \in FieldSet')

AddedFields == SubSeq(fields', Len(KeptFields) + 1, Len(fields'))

\* Portal n is linked to both id1 and id2 once the new link is in place.
IsCommonNeighbor(n, id1, id2) ==
    /\ n \notin {id1, id2}
    /\ getLinkKey(id1, n) \in LinkSet'
    /\ getLinkKey(id2, n) \in LinkSet'

\* cross(p1, p2, pn) on the stored coordinates.
CrossOf(id1, id2, n) ==
    calculateCrossProduct(portalStates[id1], portalStates[id2], portalStates[n])

\* The common neighbours of the new edge on its left (sign 1) or right
\* (sign -1) side; a collinear neighbour is on neither.
SideOf(id1, id2, sign) ==
    {n \in CatalogIds : IsCommonNeighbor(n, id1, id2) /\ CrossOf(id1, id2, n) * sign > 0}

\* One field on a non-empty side, none on an empty one; the field is
\* {id1, id2, pn} with pn of largest |cross| on the side.
OneFieldOnSide(id1, id2, sign) ==
    LET side == SideOf(id1, id2, sign)
        onSide == {i \in DOMAIN AddedFields : AddedFields[i].p3 \in side}
    IN  /\ Cardinality(onSide) = IF side = {} THEN 0 ELSE 1
        /\ \A i \in onSide :
              /\ AddedFields[i].p1 = id1
              /\ AddedFields[i].p2 = id2
              /\ \A m \in side :
                    Abs(CrossOf(id1, id2, m)) <= Abs(CrossOf(id1, id2, AddedFields[i].p3))

\* C26: a link action that adds a new link between catalog portals pushes
\* its fields after the ones kept, one for each side of the edge that has a
\* common neighbour, with a common neighbour of largest |cross| on that side
\* as third vertex, and no other field: none without a common neighbour,
\* none for a collinear one, two at most.
C26_OneFieldPerSide ==
    [][(AddsNewLink /\ last'.portal_id \in CatalogIds
            /\ last'.target_portal_id \in CatalogIds)
          => /\ fields' = KeptFields \o AddedFields
             /\ OneFieldOnSide(last'.portal_id, last'.target_portal_id, 1)
             /\ OneFieldOnSide(last'.portal_id, last'.target_portal_id, -1)
             /\ \A i \in DOMAIN AddedFields :
                   AddedFields[i].p3 \in
                       SideOf(last'.portal_id, last'.target_portal_id, 1)
                       \cup SideOf(last'.portal_id, last'.target_portal_id, -1)]_vars

\* C27: when common neighbours on one side of the new edge have equal
\* triangle area and none on that side has a larger one, the field pushed
\* for that side has the lexicographically smallest of them as third
\* vertex.
C27_TieGoesToSmallestId ==
    [][(AddsNewLink /\ last'.portal_id \in CatalogIds
            /\ last'.target_portal_id \in CatalogIds)
          => \A i \in DOMAIN AddedFields, sign \in {1, -1} :
                LET id1 == last'.portal_id
                    id2 == last'.target_portal_id
                    side == SideOf(id1, id2, sign)
                    largest == {n \in side : \A m \in side :
                                   Abs(CrossOf(id1, id2, m)) <= Abs(CrossOf(id1, id2, n))}
                IN  (AddedFields[i].p3 \in side /\ Cardinality(largest) >= 2)
                        => \A n \in largest :
                              AddedFields[i].p3 = n \/ StrLess(AddedFields[i].p3, n)]_vars

----------------------------------------------------------------------------
\* Explicit link destruction

\* C28: a link-destroy action with both identifiers removes the link with
\* their canonical key and the fields having that edge, and nothing else:
\* the other links and fields, the teams and the resonator counts stay, and
\* the call returns true exactly when the link was stored.
C28_LinkDestroyExact ==
    [][(last'.type = "link" /\ last'.action = "destroy"
            /\ last'.portal_id # Null /\ last'.target_portal_id # Null)
          => LET key == getLinkKey(last'.portal_id, last'.target_portal_id)
             IN  /\ links' = SelectSeq(links, LAMBDA k : k # key)
                 /\ fields' = SelectSeq(fields, LAMBDA f : ~DependsOn(f, key))
                 /\ portalStates' = portalStates
                 /\ portalResonators' = portalResonators
                 /\ ret' <=> key \in LinkSet]_vars

----------------------------------------------------------------------------
\* Actions without a dispatch branch

\* The action about to be recorded in last' is one the simulator has no
\* branch for: an event of type field, mod or unknown; a destroy of type
\* portal, field or mod; a deploy, capture or link without faction suffix;
\* a deploy, capture, resonator-destroy or beacon on a portal outside the
\* catalog.
HasNoBranch ==
    \/ last'.type \in {"field", "mod", "unknown"}
    \/ last'.action = "destroy" /\ last'.type \in {"portal", "field", "mod"}
    \/ last'.action \in {"deploy", "captured", "link"}
    \/ /\ last'.portal_id \notin CatalogIds
       /\ \/ last'.action \in {"deploy_RES", "deploy_ENL", "captured_RES",
                               "captured_ENL", "won_RES", "won_ENL"}
          \/ last'.type = "reso" /\ last'.action = "destroy"
       /\ last'.type # "link"

\* C29: an action without a dispatch branch leaves teams, resonator counts,
\* links and fields unchanged and returns false.
C29_NoBranchNoChange ==
    [][HasNoBranch =>
          /\ portalStates' = portalStates
          /\ portalResonators' = portalResonators
          /\ links' = links
          /\ fields' = fields
          /\ ~ret']_vars

\* A field event arrived after the field it reports was built by the link
\* event before it: nothing changed and no frame is due.
C29_Witness ==
    /\ last.type = "field"
    /\ last.action \in {"field_RES", "field_ENL"}
    /\ last.portal_id \in CatalogIds
    /\ fields # <<>>
    /\ links # <<>>
    /\ steps = 2
    /\ ~ret

----------------------------------------------------------------------------
\* Repeated link creation

\* The action about to be recorded in last' is a link_T action that repeats
\* the previous call's action, with the endpoints in the same or in the
\* other order, its canonical key being stored.
RepeatsLink ==
    /\ last'.type = "link"
    /\ last'.action \in {"link_RES", "link_ENL"}
    /\ last.type = "link"
    /\ last.action = last'.action
    /\ last'.portal_id # Null
    /\ last'.target_portal_id # Null
    /\ \/ (last'.portal_id = last.portal_id
           /\ last'.target_portal_id = last.target_portal_id)
       \/ (last'.portal_id = last.target_portal_id
           /\ last'.target_portal_id = last.portal_id)
    /\ getLinkKey(last'.portal_id, last'.target_portal_id) \in LinkSet

\* C30: a link_T action applied a second time in a row, in either endpoint
\* order, with its key stored, leaves the whole simulator state unchanged
\* and returns false.
C30_RepeatedLinkIsNoOp ==
    [][RepeatsLink => (State' = State /\ ~ret')]_vars

\* Right after the ENL field was closed by link_ENL from its first to its
\* third corner, the same link arrived from the third to the first: three
\* links and one field stand, and the call returned false.
C30_Witness ==
    /\ pending = <<>>
    /\ steps = 1
    /\ last = Action("link", "link_ENL", catalog[3].id, catalog[1].id)
    /\ Len(links) = 3
    /\ Len(fields) = 1
    /\ ~ret

----------------------------------------------------------------------------
\* Battle beacon

\* C31: a battle-beacon action won_T on a catalog portal sets the portal's
\* team to T; if the team was neither NEUTRAL nor T, the portal is left with
\* no incident link and on no field; if it was NEUTRAL or T, the link set and
\* the field list are unchanged; true is returned exactly when the team
\* changed.
C31_BeaconEffects ==
    [][\A p \in CatalogIds, T \in {"RES", "ENL"} :
          (/\ last'.type = "battlebeacon"
           /\ last'.action = "won_" \o T
           /\ last'.portal_id = p)
          => /\ portalStates'[p].team = T
             /\ portalStates[p].team \notin {"NEUTRAL", T}
                  => ~HasIncidentLink(p)' /\ ~IsFieldVertex(p)'
             /\ portalStates[p].team \in {"NEUTRAL", T}
                  => links' = links /\ fields' = fields
             /\ ret' <=> portalStates[p].team # T]_vars

\* The first action after the ENL field was built was a beacon won by RES on
\* one of its corners: of the three links only the opposite edge is left,
\* the field is gone, and the other corners are still ENL.
C31_Witness ==
    /\ LastIsBeacon
    /\ last.action = "won_RES"
    /\ last.portal_id \in CatalogIds
    /\ TeamOf(last.portal_id) = "RES"
    /\ ret
    /\ pending = <<>> /\ steps = 1
    /\ Len(links) = 1
    /\ fields = <<>>
    /\ \E q \in CatalogIds : TeamOf(q) = "ENL" /\ HasIncidentLink(q)

----------------------------------------------------------------------------
\* The fetch loop

\* The last response was null or held no event.
ResponseEmpty(r) == ~r.ok \/ Len(r.result) = 0

\* The last response's final item is older than the floor.
ResponseBelowFloor(r) ==
    /\ ~ResponseEmpty(r)
    /\ r.result[Len(r.result)].timestamp < untilTimestampMs

\* C32: the ingest loop terminates.  With every request returning and the
\* feed answering from a finite history with events at or below the
\* requested maxTimestampMs: the loop reaches its return; each further
\* request carries a strictly smaller maxTimestampMs than the one before;
\* the loop returns at the first response that is empty or errored or whose
\* oldest timestamp is below the floor, and at no other; and no request is
\* issued after the return.
C32_FetchLoopTerminates ==
    /\ <>(fetchPc = "done")
    /\ [][/\ fetchPc' = "loop" => currentMaxTimestamp' < currentMaxTimestamp
          /\ fetchPc' = "done" <=> (ResponseEmpty(responseData')
                                    \/ ResponseBelowFloor(responseData'))
          /\ fetchPc = "done" => requests' = requests]_vars

\* The loop returned on its third request, on a page reaching below the
\* floor, the two pages before it having moved the cursor down.
C32_Witness ==
    /\ fetchPc = "done"
    /\ requests = 3
    /\ fetches = 3
    /\ ResponseBelowFloor(responseData)
    /\ currentMaxTimestamp < MaxTimestamp - 1

----------------------------------------------------------------------------
\* Battle beacon records

\* The raw record of the page a normalized action came from.
RawOf(d) == CHOOSE item \in SeqRange(rawList) : item.id = d.id

\* C33: for a battle-beacon record the normalized action's winner suffix is
\* the faction of the record's first FACTION tag: won_RES only when that
\* tag's team is RESISTANCE, won_ENL only when it is ENLIGHTENED.
C33_BeaconWinnerFromFactionTag ==
    \A i \in DOMAIN parsed :
        parsed[i].type = "battlebeacon" =>
            LET factionTag == FindTag(RawOf(parsed[i]).markup, "FACTION")
            IN  /\ parsed[i].action = "won_RES"
                     => factionTag # Null /\ factionTag.team = "RESISTANCE"
                /\ parsed[i].action = "won_ENL"
                     => factionTag # Null /\ factionTag.team = "ENLIGHTENED"

----------------------------------------------------------------------------
\* Portal keys

\* The PORTAL tags of a raw record, in markup order.
PortalsOf(item) == SelectSeq(item.markup, LAMBDA m : m.tag = "PORTAL")

\* The PORTAL tags #saveToDB was given coordinates for: the first two of a
\* record that was not dropped, off the equator.
StoredTags ==
    { p \in UNION { { PortalsOf(item)[k] : k \in 1..Min(2, Len(PortalsOf(item))) } :
                      item \in { r \in seen : ~IsIgnored(r.text) } } :
        parseE6(p.latE6) # 0 }

\* C34: portals and action references are keyed by the portal guid: every
\* persisted PORTAL tag has the portals row whose key is its guid, so tags
\* with different guids have distinct rows, and an action's portal_id and
\* target_portal_id are the guids of its first and second referenced portal.
C34_KeyedByGuid ==
    /\ \A p \in StoredTags :
          p.guid \in DOMAIN portalsTable /\ portalsTable[p.guid].id = p.guid
    /\ \A item \in seen :
          item.id \in DOMAIN actionsTable =>
              LET portals == PortalsOf(item)
              IN  /\ actionsTable[item.id].portal_id
                       = (IF Len(portals) >= 1 THEN portals[1].guid ELSE Null)
                  /\ actionsTable[item.id].target_portal_id
                       = (IF Len(portals) >= 2 THEN portals[2].guid ELSE Null)

----------------------------------------------------------------------------
\* Frame of removeLinksAttachedTo

\* C35: an action that removes the links attached to its portal X (a flip,
\* the resonator threshold, a lost beacon) removes only links with X as an
\* endpoint and only fields with X as a vertex: every link between two
\* portals other than X and every field not involving X is still there
\* afterwards, whatever the identifier strings are.
C35_RemovalTouchesOnlyX ==
    [][\A X \in CatalogIds :
          (/\ last'.type \in {"reso", "portal", "battlebeacon"}
           /\ last'.portal_id = X)
          => /\ \A k \in LinkSet :
                   (\A other \in AllIds : ~Joins(k, X, other)) => k \in LinkSet'
             /\ \A f \in FieldSet :
                   X \notin {f.p1, f.p2, f.p3} => f \in FieldSet']_vars

----------------------------------------------------------------------------
\* Agreement of the two replay modes

\* C36: when a time-stepped replay has finished, every row of the log has
\* been passed to processAction exactly once, in order, and the simulator's
\* snapshot is the one a per-action replay of the whole log ends with; for
\* every positive stepSeconds and every simulationStart from which the loop
\* takes at least one step.
C36_ModesAgreeAtEnd ==
    (/\ ~screenshotPerAction
     /\ actions # <<>>
     /\ simulationStart <= lastActionTime(actions)
     /\ time > lastActionTime(actions))
    => /\ log = actions
       /\ getCurrentState(State) = getCurrentState(SecondRun(catalog, actions).st)

----------------------------------------------------------------------------
\* Coverage of the ingest window

\* C37: when fetchHistoryUntil stops on a page whose oldest timestamp is
\* below the floor, every response having held the newest events at or
\* below the requested maxTimestampMs up to the page size, every feed event
\* the normalizer does not drop, stamped between the floor and the initial
\* cursor, has its row in the actions relation.
C37_WindowCovered ==
    (fetchPc = "done" /\ ResponseBelowFloor(responseData) /\ honest)
    => \A e \in SeqRange(history) :
          (/\ ~IsIgnored(e.text)
           /\ untilTimestampMs <= e.timestamp
           /\ e.timestamp <= MaxTimestamp)
          => e.id \in DOMAIN actionsTable

----------------------------------------------------------------------------
\* Distinct fields

\* The three vertices of a field.
Vertices(f) == {f.p1, f.p2, f.p3}

\* C38: with identifiers that contain no '-' and are not substrings of one
\* another, the field list never holds two fields over the same three
\* vertex portals.
C38_NoDuplicateFields ==
    \A i, j \in DOMAIN fields :
        i # j => Vertices(fields[i]) # Vertices(fields[j])

\* The diagonal of the quadrilateral was destroyed, which removed both
\* fields, and then linked again from its other end: both fields are back,
\* once each.
C38_Witness ==
    /\ pending = <<>> /\ steps = 2
    /\ LastIsLinkCreate
    /\ ret
    /\ Len(links) = 5
    /\ Len(fields) = 2
    /\ \A i \in DOMAIN fields :
          fields[i].p1 = last.portal_id /\ fields[i].p2 = last.target_portal_id
    /\ last.portal_id = <<"a">> /\ last.target_portal_id = <<"c">>

----------------------------------------------------------------------------
\* One screenshot cycle at a time

====
